---- MODULE Spec2Model ----
(***************************************************************************)
(* Model of the AIcodec VS Code extension: the JSON loaders of utils.ts,   *)
(* the lazy tree reconstruction of AicodecTreeDataProvider (cache, async   *)
(* load, refresh, getChildren) and the .aicodec file watcher of            *)
(* extension.ts.                                                           *)
(*                                                                         *)
(* Strings are sequences of one-character strings, so that split, trim,    *)
(* startsWith and the code-unit order of Array.prototype.sort are computed *)
(* as the code computes them.                                              *)
(***************************************************************************)
EXTENDS Integers, Sequences, FiniteSets, Bags, TLC

\* ------------------------------------------------------------------ bounds
MaxEntries == 2          \* items per generic document (context.json, changes.json)
MaxSessionEntries == 2   \* items per per-session document
MaxCalls == 2            \* getChildren calls in flight at the same time
MaxEvents == 1           \* queued, not yet delivered, watcher notifications
MaxReads == 3            \* reads of one source counted between two refreshes

\* ------------------------------------------------------------- characters
SLASH == "/"
BSLASH == "\\"
SPACE == " "

\* UTF-16 code units of the characters used (Array.prototype.sort order).
Code ==
    (" " :> 32) @@ ("%" :> 37) @@ ("-" :> 45) @@ ("." :> 46) @@ ("/" :> 47) @@
    ("0" :> 48) @@ ("1" :> 49) @@ ("2" :> 50) @@ ("3" :> 51) @@ ("4" :> 52) @@
    ("5" :> 53) @@ ("6" :> 54) @@ ("7" :> 55) @@ ("8" :> 56) @@ ("9" :> 57) @@
    ("F" :> 70) @@ ("S" :> 83) @@ ("\\" :> 92) @@ ("a" :> 97) @@ ("b" :> 98) @@ ("c" :> 99) @@
    ("e" :> 101) @@ ("g" :> 103) @@ ("h" :> 104) @@ ("i" :> 105) @@
    ("j" :> 106) @@ ("l" :> 108) @@ ("m" :> 109) @@ ("n" :> 110) @@
    ("o" :> 111) @@ ("r" :> 114) @@ ("s" :> 115) @@ ("t" :> 116) @@
    ("u" :> 117) @@ ("v" :> 118) @@ ("x" :> 120) @@ ("y" :> 121)

Digits == {"0", "1", "2", "3", "4", "5", "6", "7", "8", "9"}

\* ------------------------------------------------------------ string ops
RECURSIVE StrLess(_, _)
\* s < t in code-unit order (the default comparator of Array.prototype.sort)
StrLess(s, t) ==
    IF Len(t) = 0 THEN FALSE
    ELSE IF Len(s) = 0 THEN TRUE
    ELSE IF Code[Head(s)] < Code[Head(t)] THEN TRUE
    ELSE IF Code[Head(s)] > Code[Head(t)] THEN FALSE
    ELSE StrLess(Tail(s), Tail(t))

\* String.prototype.startsWith
StartsWith(s, pre) ==
    /\ Len(pre) <= Len(s)
    /\ SubSeq(s, 1, Len(pre)) = pre

\* String.prototype.endsWith
EndsWith(s, suf) ==
    /\ Len(suf) <= Len(s)
    /\ SubSeq(s, Len(s) - Len(suf) + 1, Len(s)) = suf

\* String.prototype.substring(n)
Substring(s, n) == IF n >= Len(s) THEN <<>> ELSE SubSeq(s, n + 1, Len(s))

RECURSIVE SplitAcc(_, _, _, _)
SplitAcc(s, i, cur, seps) ==
    IF i > Len(s) THEN <<cur>>
    ELSE IF s[i] \in seps THEN <<cur>> \o SplitAcc(s, i + 1, <<>>, seps)
    ELSE SplitAcc(s, i + 1, Append(cur, s[i]), seps)

\* String.prototype.split on a one-character separator class:
\* "a//b" gives <<"a", "", "b">> and "" gives <<"">>.
Split(s, seps) == SplitAcc(s, 1, <<>>, seps)

RECURSIVE Join(_, _)
\* Array.prototype.join
Join(segs, sepc) ==
    IF Len(segs) = 0 THEN <<>>
    ELSE IF Len(segs) = 1 THEN segs[1]
    ELSE segs[1] \o <<sepc>> \o Join(Tail(segs), sepc)

RECURSIVE TrimLeft(_)
TrimLeft(s) == IF Len(s) > 0 /\ Head(s) = SPACE THEN TrimLeft(Tail(s)) ELSE s

RECURSIVE TrimRight(_)
TrimRight(s) ==
    IF Len(s) > 0 /\ s[Len(s)] = SPACE THEN TrimRight(SubSeq(s, 1, Len(s) - 1)) ELSE s

\* String.prototype.trim (the space is the only whitespace of the alphabet)
Trim(s) == TrimRight(TrimLeft(s))

\* p.split(/[\\/]/).join(c)
Resep(p, c) == Join(Split(p, {SLASH, BSLASH}), c)

\* utils.normalizePath: p.replace(/\\/g, '/')
normalizePath(p) == [i \in 1..Len(p) |-> IF p[i] = BSLASH THEN SLASH ELSE p[i]]

\* utils.pathsEqual
pathsEqual(p1, p2) == normalizePath(p1) = normalizePath(p2)

\* a sequence without its duplicates, first occurrences kept (insertion order
\* of a JavaScript Set or of the keys of a Map)
RECURSIVE Dedup(_)
Dedup(s) ==
    IF Len(s) = 0 THEN <<>>
    ELSE LET r == Dedup(SubSeq(s, 1, Len(s) - 1))
             x == s[Len(s)]
         IN IF \E i \in 1..Len(r) : r[i] = x THEN r ELSE Append(r, x)

SeqToSet(s) == {s[i] : i \in 1..Len(s)}

\* Array.prototype.sort() with the default comparator
SortAsc(s) == SortSeq(s, StrLess)

\* sort((a, b) => b.localeCompare(a)); on this alphabet localeCompare orders
\* two strings as their code units do
SortDesc(s) == SortSeq(s, LAMBDA a, b : StrLess(b, a))

\* ------------------------------------------------------------ path module
RECURSIVE NormSegs(_, _)
\* path.normalize on a list of segments: "" and "." are dropped, ".." pops
\* the segment before it, or stays when there is none to pop
NormSegs(segs, acc) ==
    IF Len(segs) = 0 THEN acc
    ELSE LET h == Head(segs) IN
         IF h = <<>> \/ h = <<".">> THEN NormSegs(Tail(segs), acc)
         ELSE IF h = <<".", ".">> /\ Len(acc) > 0 /\ acc[Len(acc)] # <<".", ".">>
              THEN NormSegs(Tail(segs), SubSeq(acc, 1, Len(acc) - 1))
         ELSE NormSegs(Tail(segs), Append(acc, h))

\* path.relative(workspaceRoot, path.join(workspaceRoot, parent, child)) on a
\* host whose separator is sepc: full paths of tree items are kept relative
\* to the workspace root
RelJoin(parent, child, sepc) ==
    Join(NormSegs(Split(parent, {sepc}) \o <<child>>, <<>>), sepc)

\* ------------------------------------------------------------ JSON values
\* A JSON value as far as the code looks at it: a string, a number, or a
\* missing property (undefined).
JStr(s) == [t |-> "str", s |-> s, n |-> 0]
JNum(n) == [t |-> "num", s |-> <<>>, n |-> n]
JUndef == [t |-> "undef", s |-> <<>>, n |-> 0]

\* JavaScript truthiness of a JSON value
Truthy(v) ==
    CASE v.t = "str" -> Len(v.s) > 0
      [] v.t = "num" -> v.n # 0
      [] OTHER -> FALSE

\* typeof v === 'string'
IsString(v) == v.t = "str"

\* One element of a document's array: null, or an object with the properties
\* filePath and content (each possibly missing or of another type).
JNull == [obj |-> FALSE, filePath |-> JUndef, content |-> JUndef]
JObj(fp, c) == [obj |-> TRUE, filePath |-> fp, content |-> c]

\* A document on disk.  shape: "absent" (no such file), "empty" (a file of
\* size 0), "malformed" (other text that is not JSON), "array" (a bare array), "object" (an object whose changes property
\* is an array), "other" (any other JSON value that is not null).
Doc(shape, items) == [shape |-> shape, items |-> items]
AbsentDoc == Doc("absent", <<>>)
MalformedDoc == Doc("malformed", <<>>)
EmptyDoc == Doc("empty", <<>>)
OtherDoc == Doc("other", <<>>)

\* utils.AicodecFile; revertSession is "" (the empty sequence) when not set
AicodecFile(fp, c, rs) == [filePath |-> fp, content |-> c, revertSession |-> rs]

\* ------------------------------------------------------------ file names
CONTEXT_JSON == <<"c", "o", "n", "t", "e", "x", "t", ".", "j", "s", "o", "n">>
CHANGES_JSON == <<"c", "h", "a", "n", "g", "e", "s", ".", "j", "s", "o", "n">>
REVERT_JSON == <<"r", "e", "v", "e", "r", "t", ".", "j", "s", "o", "n">>
REVERT_PREFIX == <<"r", "e", "v", "e", "r", "t", "-">>
JSON_SUFFIX == <<".", "j", "s", "o", "n">>
REVERT_MULTI_SESSION ==
    <<"r", "e", "v", "e", "r", "t", "-", "m", "u", "l", "t", "i", "-",
      "s", "e", "s", "s", "i", "o", "n">>
SESSION_PREFIX == <<"S", "e", "s", "s", "i", "o", "n", " ">>

\* the three providers created by activate()
Providers == {CONTEXT_JSON, CHANGES_JSON, REVERT_JSON}

\* ---------------------------------------------------------------- loaders
\* The result of one load: the entries and whether showErrorMessage was called.
LoadResult(list, err) == [list |-> list, err |-> err]

\* what a loader returns for a document or directory that does not exist
MissingResult_Reported == LoadResult(<<>>, TRUE)

\* FileNotFound, or the reverts directory does not exist: an empty list, and
\* showErrorMessage is not called
MissingResult == LoadResult(<<>>, FALSE)

\* readAicodecJson for context.json and changes.json
ReadGenericJson(doc) ==
    CASE doc.shape = "absent" -> MissingResult
      [] doc.shape \in {"malformed", "empty"} -> LoadResult(<<>>, TRUE)
      [] doc.shape \in {"array", "object"} ->
            LoadResult(
              LET kept == SelectSeq(doc.items, LAMBDA it : it.obj /\ IsString(it.filePath))
              IN [i \in 1..Len(kept) |-> AicodecFile(kept[i].filePath, kept[i].content, <<>>)],
              FALSE)
      [] OTHER -> LoadResult(<<>>, FALSE)

RECURSIVE SessionChanges(_, _)
\* the loop over data.changes of one session document: a null element makes
\* change.filePath throw, which ends the loop for this document
SessionChanges(items, name) ==
    IF Len(items) = 0 THEN <<>>
    ELSE LET change == Head(items) IN
         IF ~change.obj THEN <<>>
         ELSE IF Truthy(change.filePath)
              THEN <<AicodecFile(change.filePath,
                                 IF Truthy(change.content) THEN change.content ELSE JStr(<<>>),
                                 name)>>
                   \o SessionChanges(Tail(items), name)
         ELSE SessionChanges(Tail(items), name)

\* a loader that takes an entry from a session document it could not parse
SessionEntries_KeepBroken(doc, name) ==
    IF doc.shape = "object" THEN SessionChanges(doc.items, name)
    ELSE <<AicodecFile(JStr(<<"a">>), JStr(<<>>), name)>>

\* the entries one session document contributes: none when readFileSync or
\* JSON.parse throws, or when the document has no changes array
SessionEntries(doc, name) ==
    IF doc.shape = "object" THEN SessionChanges(doc.items, name) ELSE <<>>

\* the names readRevertFiles reads, in its read order
RevertFileNames(dir) ==
    LET names == {f \in DOMAIN dir.files :
                    StartsWith(f, REVERT_PREFIX) /\ EndsWith(f, JSON_SUFFIX)}
        asc == SortAsc(CHOOSE s \in [1..Cardinality(names) -> names] :
                          \A i, j \in 1..Cardinality(names) : i # j => s[i] # s[j])
    IN [i \in 1..Len(asc) |-> asc[Len(asc) + 1 - i]]

RECURSIVE FlattenSessions(_, _)
FlattenSessions(dir, names) ==
    IF Len(names) = 0 THEN <<>>
    ELSE SessionEntries(dir.files[Head(names)], Head(names))
         \o FlattenSessions(dir, Tail(names))

\* readRevertFiles
readRevertFiles(dir) ==
    IF ~dir.exists THEN MissingResult
    ELSE LoadResult(FlattenSessions(dir, RevertFileNames(dir)), FALSE)

\* readAicodecJson(aicodecPath, fileName) against the documents on disk
readAicodecJson(fileName, d) ==
    IF fileName = REVERT_JSON THEN readRevertFiles(d.reverts)
    ELSE IF fileName = CONTEXT_JSON THEN ReadGenericJson(d.context)
    ELSE ReadGenericJson(d.changes)

\* ------------------------------------------------------------- tree items
\* vscode.TreeItemCollapsibleState: TRUE is Collapsed, FALSE is None.
\* fullPath is kept relative to the workspace root (hasPath is FALSE when it
\* is undefined); jsonSourceFile is "" when undefined, which every test the
\* code makes on it treats like undefined; isApplied is "undef", "yes", "no";
\* sessions and multiSessionPath are the _sessions and _multiSessionPath
\* properties of a multi-session placeholder.
AicodecTreeItem(label, collapsible, hasPath, fullPath, isFile, src, applied, sessions, msPath) ==
    [root |-> FALSE, label |-> label, collapsible |-> collapsible,
     hasPath |-> hasPath, fullPath |-> fullPath, isFile |-> isFile,
     jsonSourceFile |-> src, isApplied |-> applied,
     sessions |-> sessions, multiSessionPath |-> msPath]

\* getChildren(undefined): the root of a view
ROOT ==
    [root |-> TRUE, label |-> <<>>, collapsible |-> TRUE,
     hasPath |-> FALSE, fullPath |-> <<>>, isFile |-> FALSE,
     jsonSourceFile |-> <<>>, isApplied |-> "undef",
     sessions |-> <<>>, multiSessionPath |-> <<>>]

\* the informational item shown for an empty view ('No aggregates found',
\* 'No changes found', 'No reverts found'): no fullPath, not expandable
MessageItem(jsonFileName) ==
    LET what == CASE jsonFileName = CONTEXT_JSON ->
                        <<"a", "g", "g", "r", "e", "g", "a", "t", "e", "s">>
                  [] jsonFileName = CHANGES_JSON -> <<"c", "h", "a", "n", "g", "e", "s">>
                  [] OTHER -> <<"r", "e", "v", "e", "r", "t", "s">>
    IN AicodecTreeItem(<<"N", "o", " ">> \o what \o <<" ", "f", "o", "u", "n", "d">>,
                       FALSE, FALSE, <<>>, FALSE, <<>>, "undef", <<>>, <<>>)

\* the outcome of one getChildren call: the items, or a rejected promise
Returned(items) == [threw |-> FALSE, items |-> items]
Rejected == [threw |-> TRUE, items |-> <<>>]

\* --------------------------------------------------------- child resolver
\* a resolver that splits on "/" only
SplitPath_SlashOnly(p) == Split(p, {SLASH})

\* fullRelativePath.split(/[\\/]/)
SplitPath(p) == Split(p, {SLASH, BSLASH})

\* const isFile = segments.length === 1
SegmentsIsFile(segments) == Len(segments) = 1

\* a resolver that returns the keys in insertion order
SortedKeys_Unsorted(keys) == keys

\* Array.from(children.keys()).sort()
SortedKeys(keys) == SortAsc(keys)

\* The body of the loop over the flat list, up to childName: whether the
\* entry lies under the parent, and if so its first segment after the parent
\* and whether that segment is the last one.
ChildOf(entryPath, parentRelativePath, sepc) ==
    LET normalizedPath == Join(SplitPath(entryPath), sepc)
        normalizedParent == Join(SplitPath(parentRelativePath), sepc)
    IN IF Len(normalizedParent) > 0 /\ ~StartsWith(normalizedPath, normalizedParent \o <<sepc>>)
       THEN [skip |-> TRUE, name |-> <<>>, isFile |-> FALSE]
       ELSE LET pathAfterParent ==
                    IF Len(normalizedParent) > 0
                    THEN Substring(normalizedPath, Len(normalizedParent) + 1)
                    ELSE normalizedPath
                segments == Split(pathAfterParent, {sepc})
            IN [skip |-> FALSE, name |-> segments[1], isFile |-> SegmentsIsFile(segments)]

HasKey(m, k) == \E i \in 1..Len(m) : m[i].name = k
KeyIndex(m, k) == CHOOSE i \in 1..Len(m) : m[i].name = k
Keys(m) == [i \in 1..Len(m) |-> m[i].name]

RECURSIVE GenericChildren(_, _, _, _)
\* the children Map of the generic branch, in insertion order
GenericChildren(paths, parentRelativePath, sepc, acc) ==
    IF Len(paths) = 0 THEN acc
    ELSE LET c == ChildOf(Head(paths), parentRelativePath, sepc) IN
         IF ~c.skip /\ Len(c.name) > 0 /\ ~HasKey(acc, c.name)
         THEN GenericChildren(Tail(paths), parentRelativePath, sepc,
                  Append(acc, [name |-> c.name, isFile |-> c.isFile,
                               fullPath |-> RelJoin(parentRelativePath, c.name, sepc)]))
         ELSE GenericChildren(Tail(paths), parentRelativePath, sepc, acc)

\* utils.findFileIndexByPath, 1-based with 0 for "not found"
findFileIndexByPath(files, targetPath) ==
    LET hits == {i \in 1..Len(files) :
                    /\ IsString(files[i].filePath)
                    /\ normalizePath(files[i].filePath.s) = normalizePath(targetPath)}
    IN IF hits = {} THEN 0 ELSE CHOOSE i \in hits : \A j \in hits : i <= j

\* files.find(f => f.filePath === relativePath): the index of the first
\* entry whose filePath is that very string, 0 when there is none
FindByFilePath(files, relativePath) ==
    LET hits == {i \in 1..Len(files) : files[i].filePath = JStr(relativePath)}
    IN IF hits = {} THEN 0 ELSE CHOOSE i \in hits : \A j \in hits : i <= j

RECURSIVE ReplaceCRLF(_)
\* s.replace(/\r\n/g, '\n')
ReplaceCRLF(s) ==
    IF Len(s) = 0 THEN <<>>
    ELSE IF Len(s) >= 2 /\ s[1] = "\r" /\ s[2] = "\n" THEN <<"\n">> \o ReplaceCRLF(Tail(Tail(s)))
    ELSE <<Head(s)>> \o ReplaceCRLF(Tail(s))

\* the workspace file at a host-relative path: files are keyed by their
\* segments joined with "/"
WsKey(filePath, sepc) == Join(Split(filePath, {sepc}), SLASH)

\* isChangeApplied(filePath); fd is the fileData cache, ws the workspace files
isChangeApplied(filePath, fd, ws, sepc) ==
    IF ~fd.loaded THEN FALSE
    ELSE LET i == FindByFilePath(fd.list, filePath) IN
         IF i = 0 THEN FALSE
         ELSE LET proposedContent == fd.list[i].content
                  k == WsKey(filePath, sepc)
              IN IF k \notin DOMAIN ws
                 THEN proposedContent = JStr(<<>>)
                 ELSE /\ IsString(proposedContent)
                      /\ ReplaceCRLF(proposedContent.s) = ReplaceCRLF(ws[k])

\* the generic branch of getChildren (context.json and changes.json)
GenericBranch(jsonFileName, element, rfp, fd, ws, sepc) ==
    LET parentRelativePath == IF element.root THEN <<>> ELSE element.fullPath
        children == GenericChildren(rfp.list, parentRelativePath, sepc, <<>>)
        sortedKeys == SortedKeys(Keys(children))
    IN Returned([i \in 1..Len(sortedKeys) |->
          LET child == children[KeyIndex(children, sortedKeys[i])]
              isApplied ==
                  IF jsonFileName = CHANGES_JSON /\ child.isFile
                  THEN (IF isChangeApplied(child.fullPath, fd, ws, sepc) THEN "yes" ELSE "no")
                  ELSE "undef"
          IN AicodecTreeItem(sortedKeys[i], ~child.isFile, TRUE, child.fullPath,
                             child.isFile, jsonFileName, isApplied, <<>>, <<>>)])

\* ----------------------------------------------------------- reverts view
RECURSIVE FileToSessions(_, _)
\* the fileToSessions Map, in insertion order: normalized path -> sessions
FileToSessions(files, acc) ==
    IF Len(files) = 0 THEN acc
    ELSE LET file == Head(files)
             normalizedPath == Join(SplitPath(file.filePath.s), SLASH)
             withKey == IF HasKey(acc, normalizedPath) THEN acc
                        ELSE Append(acc, [name |-> normalizedPath, sessions |-> <<>>])
             k == KeyIndex(withKey, normalizedPath)
             added == IF Len(file.revertSession) > 0
                      THEN [withKey EXCEPT ![k].sessions = Dedup(@ \o <<file.revertSession>>)]
                      ELSE withKey
         IN FileToSessions(Tail(files), added)

\* if (isInsideSessionFolder && currentSessionName && !sessions.has(currentSessionName)) continue
SessionFiltered(isInsideSessionFolder, currentSessionName, sessions) ==
    /\ isInsideSessionFolder
    /\ Len(currentSessionName) > 0
    /\ currentSessionName \notin SeqToSet(sessions)

\* the else branch of children.has(childName): sessions.forEach(s => existing.sessions.add(s))
MergeSessions(existing, sessions) == Dedup(existing \o sessions)

RECURSIVE RevertChildren(_, _, _, _, _, _)
\* the children Map of the reverts branch, in insertion order
RevertChildren(f2s, parentRelativePath, inside, cur, sepc, acc) ==
    IF Len(f2s) = 0 THEN acc
    ELSE LET e == Head(f2s)
             c == ChildOf(e.name, parentRelativePath, sepc)
             rest == Tail(f2s)
         IN IF SessionFiltered(inside, cur, e.sessions) \/ c.skip \/ Len(c.name) = 0
            THEN RevertChildren(rest, parentRelativePath, inside, cur, sepc, acc)
            ELSE IF ~HasKey(acc, c.name)
            THEN RevertChildren(rest, parentRelativePath, inside, cur, sepc,
                     Append(acc, [name |-> c.name, isFile |-> c.isFile,
                                  fullPath |-> RelJoin(parentRelativePath, c.name, sepc),
                                  sessions |-> e.sessions, originalPath |-> e.name]))
            ELSE RevertChildren(rest, parentRelativePath, inside, cur, sepc,
                     [acc EXCEPT ![KeyIndex(acc, c.name)].sessions = MergeSessions(@, e.sessions)])

RECURSIVE IntToStr(_)
\* String(n) for n >= 0
IntToStr(n) ==
    LET d == <<"0", "1", "2", "3", "4", "5", "6", "7", "8", "9">>
    IN IF n < 10 THEN <<d[n + 1]>> ELSE IntToStr(n \div 10) \o <<d[(n % 10) + 1]>>

RECURSIVE ParseInt(_, _)
\* parseInt(digits, 10)
ParseInt(digits, acc) ==
    IF Len(digits) = 0 THEN acc
    ELSE ParseInt(Tail(digits), acc * 10 + (Code[Head(digits)] - 48))

RECURSIVE DigitRun(_)
\* the longest run of digits at the start of s
DigitRun(s) ==
    IF Len(s) > 0 /\ Head(s) \in Digits THEN <<Head(s)>> \o DigitRun(Tail(s)) ELSE <<>>

\* sessionName.match(/revert-(\d+)\.json/) followed by parseInt(match[1], 10),
\* 0 when there is no match
SessionNum(sessionName) ==
    LET matchAt(i) ==
            LET t == Substring(sessionName, i - 1) IN
            /\ StartsWith(t, REVERT_PREFIX)
            /\ LET u == Substring(t, Len(REVERT_PREFIX))
                   ds == DigitRun(u)
               IN Len(ds) > 0 /\ StartsWith(Substring(u, Len(ds)), JSON_SUFFIX)
        starts == {i \in 1..Len(sessionName) : matchAt(i)}
    IN IF starts = {} THEN 0
       ELSE LET i == CHOOSE k \in starts : \A j \in starts : k <= j
            IN ParseInt(DigitRun(Substring(sessionName, i - 1 + Len(REVERT_PREFIX))), 0)

\* expanding a multi-session placeholder: one item per session
SessionVariants(element) ==
    LET sessions == SortDesc(element.sessions)
    IN Returned([i \in 1..Len(sessions) |->
          AicodecTreeItem(SESSION_PREFIX \o IntToStr(SessionNum(sessions[i])),
                          FALSE, element.hasPath, element.fullPath, TRUE,
                          sessions[i], "undef", <<>>, <<>>)])

\* the reverts branch of getChildren
RevertBranch(element, fd, sepc) ==
    IF ~fd.loaded \/ Len(fd.list) = 0 THEN Returned(<<MessageItem(REVERT_JSON)>>)
    ELSE IF \E i \in 1..Len(fd.list) : ~IsString(fd.list[i].filePath)
    THEN Rejected   \* file.filePath.split is not a function
    ELSE
    LET fileToSessions == FileToSessions(fd.list, <<>>)
        isInsideSessionFolder ==
            /\ ~element.root
            /\ StartsWith(element.label, SESSION_PREFIX)
            /\ StartsWith(element.jsonSourceFile, REVERT_PREFIX)
        currentSessionName == IF isInsideSessionFolder THEN element.jsonSourceFile ELSE <<>>
        parentRelativePath ==
            IF ~element.root /\ element.hasPath THEN element.fullPath ELSE <<>>
        children == RevertChildren(fileToSessions, parentRelativePath,
                                   isInsideSessionFolder, currentSessionName, sepc, <<>>)
        sortedKeys == SortedKeys(Keys(children))
    IN Returned([i \in 1..Len(sortedKeys) |->
          LET child == children[KeyIndex(children, sortedKeys[i])] IN
          IF child.isFile /\ Len(child.sessions) > 1 /\ ~isInsideSessionFolder
          THEN AicodecTreeItem(sortedKeys[i], TRUE, TRUE, child.fullPath, FALSE,
                               REVERT_MULTI_SESSION, "undef",
                               child.sessions, child.originalPath)
          ELSE AicodecTreeItem(sortedKeys[i], ~child.isFile, TRUE, child.fullPath,
                               child.isFile,
                               IF isInsideSessionFolder THEN currentSessionName
                               ELSE IF Len(child.sessions) > 0 THEN child.sessions[1]
                               ELSE <<>>,
                               "undef", <<>>, <<>>)])

\* getChildren(element) from the point where ensureFilePathsLoaded() has
\* returned; rfp and fd are the relativeFilePaths and fileData caches
getChildren(jsonFileName, element, rfp, fd, ws, sepc) ==
    IF element.root /\ ~rfp.loaded THEN Rejected   \* undefined.length
    ELSE IF element.root /\ Len(rfp.list) = 0 THEN Returned(<<MessageItem(jsonFileName)>>)
    ELSE IF jsonFileName = REVERT_JSON /\ element.jsonSourceFile = REVERT_MULTI_SESSION
    THEN SessionVariants(element)
    ELSE IF jsonFileName = REVERT_JSON THEN RevertBranch(element, fd, sepc)
    ELSE IF ~rfp.loaded THEN Rejected   \* undefined is not iterable
    ELSE GenericBranch(jsonFileName, element, rfp, fd, ws, sepc)

\* ------------------------------------------------------------------ state
VARIABLES
    sep,                \* path.sep of the host: "/" or "\\"
    disk,               \* the documents of the .aicodec directory
    ws,                 \* the workspace files: "/"-joined relative path -> content
    visible,            \* the views the workbench shows (it calls getChildren for these)
    relativeFilePaths,  \* per provider: the cached path list, or unloaded
    fileData,           \* per provider: the cached entries, or unloaded
    calls,              \* the getChildren calls suspended in ensureFilePathsLoaded
    pendingEvents,      \* watcher notifications queued for the extension host
    answers,            \* per provider: the completed calls since its last refresh()
    reads,              \* per provider: reads of the source started since its last refresh()
    cacheOld,           \* per provider: the cache holds what was read before its last refresh()
    dirty,              \* per provider: a document it had read changed and no refresh() ran since
    useCli,             \* the setting aicodec.useCli
    cliFound,           \* findAicodecCli() finds an executable
    lastRun,            \* what the last command did
    tempFiles,          \* the files of the .temp directory: name -> content
    workspaceState,     \* the temp files with an aicodec.edit.<path> key
    editSessions,       \* the live watcher and close listener pairs of openDiff
    openDocs,           \* the temp files open as a text document
    checkForUpdates,    \* the setting aicodec.checkForUpdates
    configuredPath,     \* the setting aicodec.path
    fileWatcher,        \* the fileWatcher variable of activate()
    liveWatchers,       \* the watchers created by createWatcher and not disposed
    hashes              \* the document hashes.json

\* the state the command handlers add to that of the tree providers
commandVars == <<useCli, cliFound, lastRun, tempFiles, workspaceState,
                 editSessions, openDocs>>

\* the settings, the watcher of the .aicodec directory and hashes.json
hostVars == <<checkForUpdates, configuredPath, fileWatcher, liveWatchers, hashes>>

vars == <<sep, disk, ws, visible, relativeFilePaths, fileData, calls,
          pendingEvents, answers, reads, cacheOld, dirty,
          useCli, cliFound, lastRun, tempFiles, workspaceState,
          editSessions, openDocs,
          checkForUpdates, configuredPath, fileWatcher, liveWatchers, hashes>>

Unloaded == [loaded |-> FALSE, list |-> <<>>]
Loaded(list) == [loaded |-> TRUE, list |-> list]

CallIds == 1..MaxCalls
IdleCall ==
    [pc |-> "idle", provider |-> <<>>, element |-> ROOT,
     data |-> LoadResult(<<>>, FALSE), old |-> FALSE]

\* the items of a completed call
ItemsOf(result) == {result.items[i] : i \in 1..Len(result.items)}

\* the nodes the workbench can ask to expand: the root and every expandable
\* item the provider returned since its last refresh
Expandable(p) ==
    {ROOT} \cup {it \in UNION {ItemsOf(a.result) : a \in answers[p]} : it.collapsible}

\* a completed call: the node, what was returned, whether showErrorMessage
\* was called by its load, whether it was answered from the cache, and whether
\* the data it was answered from was read before the last refresh()
Answer(element, result, err, cached, stale) ==
    [element |-> element, result |-> result, err |-> err, cached |-> cached, stale |-> stale]

\* fileList.map(f => f.filePath).filter(p => p && p.trim() !== '')
ValidPaths(fileList) ==
    LET kept == SelectSeq(fileList, LAMBDA f : Truthy(f.filePath) /\ Len(Trim(f.filePath.s)) > 0)
    IN [i \in 1..Len(kept) |-> kept[i].filePath.s]

\* p.trim is not a function: a truthy filePath that is not a string
FilterThrows(fileList) ==
    \E i \in 1..Len(fileList) : Truthy(fileList[i].filePath) /\ ~IsString(fileList[i].filePath)

\* a provider that keeps the entry data of the reverts source only
KeepsFileData_RevertsOnly(p) == p = REVERT_JSON

\* this.jsonFileName === 'revert.json' || this.jsonFileName === 'changes.json'
KeepsFileData(p) == p \in {REVERT_JSON, CHANGES_JSON}

\* readRevertFiles reads synchronously, so a reverts call waits only for the
\* promise jobs of its own turn of the event loop: no request of the
\* workbench, no command
\* and no watcher notification is handled before it has resumed
NoTurnInProgress ==
    \A i \in CallIds : calls[i].pc # "idle" => calls[i].provider # REVERT_JSON

\* ---------------------------------------------------------------- actions
\* getChildren(element) up to the first suspension.  With the cache loaded
\* ensureFilePathsLoaded() returns at once and the call completes; otherwise
\* the read of the source is issued (readRevertFiles reads synchronously).
GetChildrenStart(p, element, i) ==
    /\ p \in visible
    /\ element \in Expandable(p)
    /\ calls[i].pc = "idle"
    /\ \A j \in CallIds : j < i => calls[j].pc # "idle"
    /\ NoTurnInProgress
    /\ IF relativeFilePaths[p].loaded
       THEN /\ answers' = [answers EXCEPT ![p] = @ \cup
                   {Answer(element,
                           getChildren(p, element, relativeFilePaths[p], fileData[p], ws, sep),
                           FALSE, TRUE, cacheOld[p])}]
            /\ UNCHANGED <<calls, reads>>
       ELSE /\ reads[p] < MaxReads
            /\ reads' = [reads EXCEPT ![p] = @ + 1]
            /\ calls' = [calls EXCEPT ![i] =
                   [pc |-> IF p = REVERT_JSON THEN "got" ELSE "wait",
                    provider |-> p, element |-> element,
                    data |-> IF p = REVERT_JSON THEN readAicodecJson(p, disk)
                             ELSE LoadResult(<<>>, FALSE),
                    old |-> FALSE]]
            /\ UNCHANGED answers
    /\ UNCHANGED commandVars
    /\ UNCHANGED hostVars
    /\ UNCHANGED <<sep, disk, ws, visible, relativeFilePaths, fileData,
                   pendingEvents, cacheOld, dirty>>

\* vscode.workspace.fs.readFile reads the document for a suspended call
ReadFile(i) ==
    /\ calls[i].pc = "wait"
    /\ calls' = [calls EXCEPT ![i].pc = "got",
                              ![i].data = readAicodecJson(calls[i].provider, disk)]
    /\ UNCHANGED commandVars
    /\ UNCHANGED hostVars
    /\ UNCHANGED <<sep, disk, ws, visible, relativeFilePaths, fileData,
                   pendingEvents, answers, reads, cacheOld, dirty>>

\* the continuation of ensureFilePathsLoaded() after the read, and the rest
\* of getChildren (no other task runs in between)
Resume(i) ==
    LET c == calls[i]
        p == c.provider
        fileList == c.data.list
        throws == FilterThrows(fileList)
        fd2 == IF KeepsFileData(p) THEN Loaded(fileList) ELSE fileData[p]
        rfp2 == IF throws THEN relativeFilePaths[p] ELSE Loaded(ValidPaths(fileList))
        result == IF throws THEN Rejected ELSE getChildren(p, c.element, rfp2, fd2, ws, sep)
    IN /\ c.pc = "got"
       /\ fileData' = [fileData EXCEPT ![p] = fd2]
       /\ relativeFilePaths' = [relativeFilePaths EXCEPT ![p] = rfp2]
       /\ cacheOld' = [cacheOld EXCEPT ![p] = IF throws THEN @ \/ (KeepsFileData(p) /\ c.old)
                                              ELSE c.old]
       /\ answers' = [answers EXCEPT ![p] = @ \cup
              {Answer(c.element, result, c.data.err, FALSE, FALSE)}]
       /\ calls' = [calls EXCEPT ![i] = IdleCall]
       /\ UNCHANGED commandVars
       /\ UNCHANGED hostVars
       /\ UNCHANGED <<sep, disk, ws, visible, pendingEvents, reads, dirty>>

\* the refresh callback of activate(): refresh() on the three providers
\* (each clears its caches and fires onDidChangeTreeData)
Refresh ==
    /\ relativeFilePaths' = [p \in Providers |-> Unloaded]
    /\ fileData' = [p \in Providers |-> Unloaded]
    /\ answers' = [p \in Providers |-> {}]
    /\ reads' = [p \in Providers |-> 0]
    /\ cacheOld' = [p \in Providers |-> FALSE]
    /\ dirty' = [p \in Providers |-> FALSE]
    /\ calls' = [i \in CallIds |-> IF calls[i].pc = "got"
                                   THEN [calls[i] EXCEPT !.old = TRUE] ELSE calls[i]]

\* the command aicodec.refresh
RefreshCommand ==
    /\ NoTurnInProgress
    /\ Refresh
    /\ UNCHANGED commandVars
    /\ UNCHANGED hostVars
    /\ UNCHANGED <<sep, disk, ws, visible, pendingEvents>>

\* createWatcher: onDidChange, onDidCreate and onDidDelete all call refresh
WatcherEvent ==
    /\ NoTurnInProgress
    /\ pendingEvents > 0
    /\ pendingEvents' = pendingEvents - 1
    /\ Refresh
    /\ UNCHANGED commandVars
    /\ UNCHANGED hostVars
    /\ UNCHANGED <<sep, disk, ws, visible>>

\* a document of the .aicodec directory: dir is "" for the directory itself
\* and "reverts" for its reverts subdirectory
Target(dir, name) == [dir |-> dir, name |-> name]
REVERTS_DIR == <<"r", "e", "v", "e", "r", "t", "s">>

\* new vscode.RelativePattern(aicodecPath, '*.json'): the pattern has one
\* segment, so it matches the .json files directly inside aicodecPath
WatcherMatches(target) == target.dir = <<>> /\ EndsWith(target.name, JSON_SUFFIX)

\* the providers whose loader reads the document
ReadersOf(target) ==
    {p \in Providers :
        \/ target.dir = <<>> /\ p # REVERT_JSON /\ target.name = p
        \/ /\ target.dir = REVERTS_DIR /\ p = REVERT_JSON
           /\ StartsWith(target.name, REVERT_PREFIX) /\ EndsWith(target.name, JSON_SUFFIX)}

DocAt(d, target) ==
    IF target.dir = REVERTS_DIR
    THEN (IF target.name \in DOMAIN d.reverts.files THEN d.reverts.files[target.name]
          ELSE AbsentDoc)
    ELSE IF target.name = CONTEXT_JSON THEN d.context ELSE d.changes

\* the function f without the key k
Without(f, k) == [x \in DOMAIN f \ {k} |-> f[x]]

WriteDoc(d, target, doc) ==
    IF target.dir = REVERTS_DIR
    THEN [d EXCEPT !.reverts.files =
             IF doc = AbsentDoc THEN Without(@, target.name)
             ELSE (target.name :> doc) @@ @]
    ELSE IF target.name = CONTEXT_JSON THEN [d EXCEPT !.context = doc]
    ELSE [d EXCEPT !.changes = doc]

\* ------------------------------------------------------------ input pools
PathA == <<"a">>
PathAB == <<"a", "/", "b">>
PathAbackB == <<"a", "\\", "b">>
PathB == <<"b">>
PathDotA == <<".", "/", "a">>
ContentX == <<"x">>

ItemA == JObj(JStr(PathA), JStr(ContentX))
ItemAB == JObj(JStr(PathAB), JStr(ContentX))
ItemAbackB == JObj(JStr(PathAbackB), JStr(ContentX))
ItemB == JObj(JStr(PathB), JStr(ContentX))
ItemDotA == JObj(JStr(PathDotA), JStr(ContentX))
ItemBlank == JObj(JStr(<<" ">>), JStr(ContentX))
ItemEmpty == JObj(JStr(<<>>), JStr(ContentX))
ItemNum == JObj(JNum(5), JStr(ContentX))
ItemNoPath == JObj(JUndef, JStr(ContentX))

\* the array elements the documents of the tree specification are made of
GenericItems == {ItemA, ItemAB, ItemAbackB, ItemB, ItemDotA, ItemBlank, ItemEmpty, ItemNum, ItemNoPath, JNull}
SessionItems == {ItemA, ItemAB, ItemAbackB, ItemDotA, ItemBlank, ItemNum, JNull}

SeqsUpTo(S, n) == UNION {[1..k -> S] : k \in 0..n}

GenericDocs ==
    {AbsentDoc, MalformedDoc, OtherDoc}
    \cup {Doc(shape, items) : shape \in {"array", "object"},
                              items \in SeqsUpTo(GenericItems, MaxEntries)}

SessionDocs ==
    {AbsentDoc, MalformedDoc, OtherDoc}
    \cup {Doc("object", items) : items \in SeqsUpTo(SessionItems, MaxSessionEntries)}

\* the documents of the older of the two sessions
OlderSessionDocs ==
    {AbsentDoc, MalformedDoc}
    \cup {Doc("object", items) : items \in SeqsUpTo(SessionItems, 1)}

Session1 == REVERT_PREFIX \o <<"0", "0", "1">> \o JSON_SUFFIX
Session2 == REVERT_PREFIX \o <<"0", "0", "2">> \o JSON_SUFFIX
SessionNames == {Session1, Session2}

\* a reverts directory holding the given session documents
RevertsWith(d1, d2) ==
    [exists |-> TRUE,
     files |-> [n \in {m \in SessionNames : (IF m = Session1 THEN d1 ELSE d2) # AbsentDoc}
                  |-> IF n = Session1 THEN d1 ELSE d2]]
\* session documents whose sequence numbers have different numbers of digits
Session9 == REVERT_PREFIX \o <<"9">> \o JSON_SUFFIX
Session10 == REVERT_PREFIX \o <<"1", "0">> \o JSON_SUFFIX

\* a reverts directory holding the documents d9 and d10 under these names
RevertsUnpadded(d9, d10) ==
    [exists |-> TRUE,
     files |-> [n \in {m \in {Session9, Session10} :
                          (IF m = Session9 THEN d9 ELSE d10) # AbsentDoc}
                  |-> IF n = Session9 THEN d9 ELSE d10]]

NoReverts == [exists |-> FALSE, files |-> [n \in {} |-> AbsentDoc]]

\* entries of a directory whose name starts with "Session "
PathSessionA == SESSION_PREFIX \o <<"1", "/", "a">>
PathSessionB == SESSION_PREFIX \o <<"1", "/", "b">>
ItemSessionA == JObj(JStr(PathSessionA), JStr(ContentX))
ItemSessionB == JObj(JStr(PathSessionB), JStr(ContentX))

\* session documents with entries of that directory
SessionFolderDocs ==
    {Doc("object", <<ItemSessionA>>), Doc("object", <<ItemSessionB>>),
     Doc("object", <<ItemSessionA, ItemSessionB>>)}

WsPaths == {PathA, PathAB}
WsPool == {[k \in D |-> ContentX] : D \in SUBSET WsPaths}
NoWs == [k \in {} |-> ContentX]

\* the documents the load specification starts from and switches between
LoadDocs == {Doc("array", <<ItemA>>), Doc("array", <<ItemAB>>)}
LoadSessionDocs == {Doc("object", <<ItemA>>), Doc("object", <<ItemAB>>), Doc("object", <<ItemNum>>)}
FirstLoadDoc == Doc("array", <<ItemA>>)
FirstSessionDoc == Doc("object", <<ItemA>>)

\* an external program (the CLI, an editor) creates, changes or deletes a
\* document; the watcher queues a notification when its pattern matches
DiskChange(target, doc) ==
    /\ target.dir = REVERTS_DIR => disk.reverts.exists
    /\ doc # DocAt(disk, target)
    /\ disk' = WriteDoc(disk, target, doc)
    /\ pendingEvents' =
          IF WatcherMatches(target) /\ pendingEvents < MaxEvents
          THEN pendingEvents + 1 ELSE pendingEvents
    /\ dirty' = [p \in Providers |-> dirty[p] \/ (p \in ReadersOf(target) /\ reads[p] > 0)]
    /\ UNCHANGED commandVars
    /\ UNCHANGED hostVars
    /\ UNCHANGED <<sep, ws, visible, relativeFilePaths, fileData, calls,
                   answers, reads, cacheOld>>

\* --------------------------------------------------------- specifications
\* no apply or revert command has run
NoRun ==
    [cmd |-> "none", jsonFile |-> <<>>, useCli |-> FALSE, found |-> FALSE,
     choice |-> "none", cliInvoked |-> FALSE, builtinWrote |-> {}, wrote |-> {}]

NoTempFiles == [k \in {} |-> <<>>]

\* no command has run and no diff is open
InitCommands ==
    /\ lastRun = NoRun
    /\ tempFiles = NoTempFiles
    /\ workspaceState = {}
    /\ editSessions = {}
    /\ openDocs = {}

\* the configured aicodec.path of a host
AicodecPathOf(sepc) ==
    IF sepc = BSLASH THEN <<"C", ":", "\\", "w">> ELSE <<"/", "w">>

NoWatcher == [set |-> FALSE, path |-> <<>>]
WatcherOf(path) == [set |-> TRUE, path |-> path]
NoHashes == [exists |-> FALSE, valid |-> FALSE, keys |-> {}]

\* activate() with an absolute aicodec.path: its watcher is live
InitHost ==
    /\ checkForUpdates = TRUE
    /\ configuredPath = AicodecPathOf(sep)
    /\ fileWatcher = WatcherOf(AicodecPathOf(sep))
    /\ liveWatchers = SetToBag({AicodecPathOf(sep)})
    /\ hashes = NoHashes

InitProviders ==
    /\ relativeFilePaths = [p \in Providers |-> Unloaded]
    /\ fileData = [p \in Providers |-> Unloaded]
    /\ calls = [i \in CallIds |-> IdleCall]
    /\ pendingEvents = 0
    /\ answers = [p \in Providers |-> {}]
    /\ reads = [p \in Providers |-> 0]
    /\ cacheOld = [p \in Providers |-> FALSE]
    /\ dirty = [p \in Providers |-> FALSE]

\* The tree specification: one view is shown, its source holds any document
\* of the pools, and the documents do not change.
InitTree ==
    /\ sep \in {SLASH, BSLASH}
    /\ \/ \E c \in GenericDocs :
             /\ visible = {CONTEXT_JSON}
             /\ disk = [context |-> c, changes |-> AbsentDoc, reverts |-> NoReverts]
             /\ ws = NoWs
       \/ \E c \in GenericDocs, w \in WsPool :
             /\ visible = {CHANGES_JSON}
             /\ disk = [context |-> AbsentDoc, changes |-> c, reverts |-> NoReverts]
             /\ ws = w
       \/ \E r1 \in OlderSessionDocs, r2 \in SessionDocs :
             /\ visible = {REVERT_JSON}
             /\ disk = [context |-> AbsentDoc, changes |-> AbsentDoc,
                        reverts |-> RevertsWith(r1, r2)]
             /\ ws = NoWs
       \/ \E r9 \in OlderSessionDocs, r10 \in OlderSessionDocs :
             /\ visible = {REVERT_JSON}
             /\ disk = [context |-> AbsentDoc, changes |-> AbsentDoc,
                        reverts |-> RevertsUnpadded(r9, r10)]
             /\ ws = NoWs
       \/ \E r1 \in SessionFolderDocs, r2 \in SessionFolderDocs :
             /\ visible = {REVERT_JSON}
             /\ disk = [context |-> AbsentDoc, changes |-> AbsentDoc,
                        reverts |-> RevertsWith(r1, r2)]
             /\ ws = NoWs
       \/ /\ visible = {REVERT_JSON}
          /\ disk = [context |-> AbsentDoc, changes |-> AbsentDoc, reverts |-> NoReverts]
          /\ ws = NoWs
    /\ InitProviders
    /\ useCli = TRUE
    /\ cliFound = TRUE
    /\ InitCommands
    /\ InitHost

\* the workbench issues one request at a time here
NextTree ==
    \/ \E p \in Providers : \E element \in Expandable(p) : GetChildrenStart(p, element, 1)
    \/ ReadFile(1)
    \/ Resume(1)
    \/ RefreshCommand

SpecTree == InitTree /\ [][NextTree]_vars

\* The load specification: loads, refreshes, watcher notifications and
\* changes of the documents interleave.
Init ==
    /\ sep = SLASH
    /\ visible \in {{CONTEXT_JSON}, {CHANGES_JSON}, {REVERT_JSON}}
    /\ disk = [context |-> FirstLoadDoc, changes |-> FirstLoadDoc,
               reverts |-> RevertsWith(FirstSessionDoc, AbsentDoc)]
    /\ ws = NoWs
    /\ InitProviders
    /\ useCli = TRUE
    /\ cliFound = TRUE
    /\ InitCommands
    /\ InitHost

Next ==
    \/ \E p \in Providers, i \in CallIds : \E element \in Expandable(p) :
          GetChildrenStart(p, element, i)
    \/ \E i \in CallIds : ReadFile(i)
    \/ \E i \in CallIds : Resume(i)
    \/ RefreshCommand
    \/ WatcherEvent
    \/ \E name \in {CONTEXT_JSON, CHANGES_JSON}, doc \in LoadDocs :
          DiskChange(Target(<<>>, name), doc)
    \/ \E doc \in LoadSessionDocs : DiskChange(Target(REVERTS_DIR, Session1), doc)

Spec == Init /\ [][Next]_vars

\* ------------------------------------------------------------- properties
\* what the presentation layer sees of a result: names and classifications
View(result) ==
    [i \in 1..Len(result.items) |->
        [name |-> result.items[i].label, isFile |-> result.items[i].isFile,
         collapsible |-> result.items[i].collapsible]]

\* the segments of a path, whatever separators it uses
SegsOf(path) == IF Len(path) = 0 THEN <<>> ELSE Split(normalizePath(path), {SLASH})

\* the paths of the entry list a provider's getChildren works on: fileData in
\* the reverts view, relativeFilePaths in the other views
EntryPaths(p) ==
    IF p = REVERT_JSON
    THEN [i \in 1..Len(fileData[p].list) |-> fileData[p].list[i].filePath.s]
    ELSE relativeFilePaths[p].list

\* the completed calls that resolved a node prefix: the root or a directory
\* node was expanded and child nodes (not the informational item) came back
ResolverAnswers(p) ==
    {a \in answers[p] :
        /\ ~a.result.threw
        /\ a.element.jsonSourceFile # REVERT_MULTI_SESSION
        /\ \A i \in 1..Len(a.result.items) : a.result.items[i].hasPath}

PrefixOf(element) == IF element.root THEN <<>> ELSE SegsOf(element.fullPath)

\* C1: getChildren(P) returns pairwise distinct names in ascending order, each
\* the first segment after P of some entry under P, and every leaf is an
\* entry whose normalized path is P/name.
C1_ChildrenSortedDistinctLeavesAreEntries ==
    \A p \in Providers : \A a \in ResolverAnswers(p) :
        LET items == a.result.items
            P == PrefixOf(a.element)
            E == EntryPaths(p)
        IN /\ \A i, j \in 1..Len(items) : i < j =>
                 /\ items[i].label # items[j].label
                 /\ StrLess(items[i].label, items[j].label)
           /\ \A i \in 1..Len(items) :
                 /\ \E k \in 1..Len(E) :
                       /\ Len(SegsOf(E[k])) > Len(P)
                       /\ SubSeq(SegsOf(E[k]), 1, Len(P) + 1) = P \o <<items[i].label>>
                 /\ (items[i].isFile /\ ~items[i].collapsible) =>
                       \E k \in 1..Len(E) : SegsOf(E[k]) = P \o <<items[i].label>>

\* a directory below the root was expanded and returned a leaf, and a root
\* expansion returned two nodes
C1_Witness ==
    \E p \in Providers :
        /\ \E a \in ResolverAnswers(p) :
              ~a.element.root /\ \E i \in 1..Len(a.result.items) : a.result.items[i].isFile
        /\ \E a \in ResolverAnswers(p) : a.element.root /\ Len(a.result.items) = 2

\* every expandable node the provider returned has been expanded
FullyExpanded(p) ==
    /\ relativeFilePaths[p].loaded
    /\ \A e \in Expandable(p) : \E a \in answers[p] : a.element = e /\ ~a.result.threw

\* prefix/name of every leaf collected from the expansions, as segments
LeafPaths(p) ==
    {SegsOf(it.fullPath) :
        it \in {x \in UNION {ItemsOf(a.result) : a \in answers[p]} : x.isFile /\ x.hasPath}}

\* the valid entry paths: strings that are neither empty nor blank
ValidEntryPaths(p) ==
    {SegsOf(EntryPaths(p)[k]) :
        k \in {j \in 1..Len(EntryPaths(p)) : Len(Trim(EntryPaths(p)[j])) > 0}}

\* C2: expanding recursively from the root and collecting prefix/name of
\* every leaf yields exactly the set of valid entry paths, whatever the order
\* of the entries (also when one entry path is a strict prefix of another).
C2_RoundTrip ==
    \A p \in Providers : FullyExpanded(p) => LeafPaths(p) = ValidEntryPaths(p)

\* the sessions that record the path x, in read order
SessionsOf(p, x) ==
    Dedup([i \in 1..Len(SelectSeq(fileData[p].list, LAMBDA f : SegsOf(f.filePath.s) = x)) |->
              SelectSeq(fileData[p].list, LAMBDA f : SegsOf(f.filePath.s) = x)[i].revertSession])

\* the recorded paths directly below the prefix P that two or more sessions hold
MultiSessionPathsAt(p, P) ==
    {x \in {SegsOf(EntryPaths(p)[k]) : k \in 1..Len(EntryPaths(p))} :
        /\ Len(x) = Len(P) + 1
        /\ SubSeq(x, 1, Len(P)) = P
        /\ Len(SessionsOf(p, x)) >= 2}

\* C3: in the reverts view a path x recorded under two or more session
\* documents is shown at its parent as exactly one expandable multi-session
\* placeholder, and expanding it returns exactly one non-expandable child per
\* session containing x, with x's path and the session document's name.
C3_MultiSessionPlaceholder ==
    LET p == REVERT_JSON IN
    /\ \A a \in ResolverAnswers(p) : \A x \in MultiSessionPathsAt(p, PrefixOf(a.element)) :
          LET nodes == {i \in 1..Len(a.result.items) : a.result.items[i].label = x[Len(x)]}
          IN /\ Cardinality(nodes) = 1
             /\ \A i \in nodes :
                   /\ a.result.items[i].jsonSourceFile = REVERT_MULTI_SESSION
                   /\ a.result.items[i].collapsible
                   /\ ~a.result.items[i].isFile
    /\ \A a \in answers[p] :
          (~a.result.threw /\ a.element.jsonSourceFile = REVERT_MULTI_SESSION) =>
             LET x == SegsOf(a.element.fullPath)
                 items == a.result.items
             IN /\ Len(items) = Len(SessionsOf(p, x))
                /\ {items[i].jsonSourceFile : i \in 1..Len(items)} = SeqToSet(SessionsOf(p, x))
                /\ \A i \in 1..Len(items) :
                      /\ ~items[i].collapsible
                      /\ SegsOf(items[i].fullPath) = x

\* a path with every separator replaced by c
SwapSeparators(path, c) ==
    [k \in 1..Len(path) |-> IF path[k] \in {SLASH, BSLASH} THEN c ELSE path[k]]

\* the relativeFilePaths cache with every separator replaced by c
SwapPathList(cache, c) ==
    [cache EXCEPT !.list = [i \in 1..Len(cache.list) |-> SwapSeparators(cache.list[i], c)]]

\* the fileData cache with every separator replaced by c
SwapEntries(cache, c) ==
    [cache EXCEPT !.list =
        [i \in 1..Len(cache.list) |->
            [cache.list[i] EXCEPT !.filePath.s = SwapSeparators(@, c)]]]

\* C8: two entry lists that differ only in backslash versus forward slash
\* give the same getChildren results (names, order, classification) at every
\* prefix, in the generic views and in the reverts view.
C8_SeparatorIndependence ==
    \A p \in Providers : \A a \in answers[p] :
        (~a.result.threw /\ relativeFilePaths[p].loaded) =>
            \A c \in {SLASH, BSLASH} :
                View(getChildren(p, a.element, SwapPathList(relativeFilePaths[p], c),
                                 SwapEntries(fileData[p], c), ws, sep))
                    = View(a.result)

\* a list holding a path with a backslash and a list holding a path with a
\* forward slash have each been expanded below the root
C8_Witness ==
    \E p \in Providers : \E a \in ResolverAnswers(p) :
        /\ ~a.element.root
        /\ Len(a.result.items) > 0
        /\ \E k \in 1..Len(EntryPaths(p)) :
              \E j \in 1..Len(EntryPaths(p)[k]) : EntryPaths(p)[k][j] = BSLASH

\* the entries a lookup for the file node it goes through: the context.json
\* entries for deleteFromContext, the changes.json entries for
\* isChangeApplied, openDiff and apply, the entries of the node's session
\* document for revert and for the read-only content provider
LookupList(p, it) ==
    IF p = CONTEXT_JSON THEN readAicodecJson(p, disk).list
    ELSE IF p = CHANGES_JSON THEN fileData[p].list
    ELSE SelectSeq(fileData[p].list, LAMBDA f : f.revertSession = it.jsonSourceFile)

\* C9: every lookup of an entry by path treats two paths that differ only by
\* backslash versus forward slash as the same entry (tree child resolution,
\* isChangeApplied, openDiff, apply/revert of one file, deleteFromContext, the
\* read-only content provider).
C9_LookupsIgnoreSeparators ==
    \A p \in Providers : \A a \in answers[p] :
        ~a.result.threw =>
            \A i \in 1..Len(a.result.items) :
                LET it == a.result.items[i] IN
                (it.isFile /\ it.hasPath) =>
                    FindByFilePath(LookupList(p, it), it.fullPath)
                        = findFileIndexByPath(LookupList(p, it), it.fullPath)

\* the string-path elements of a document's array, as (path, session) pairs
StringPathItems(doc, name) ==
    LET kept == SelectSeq(doc.items,
                    LAMBDA it : it.obj /\ IsString(it.filePath)
                                /\ (Len(name) > 0 => Len(it.filePath.s) > 0))
    IN [i \in 1..Len(kept) |-> [path |-> kept[i].filePath.s, session |-> name]]

RECURSIVE ExpectedSessions(_, _)
ExpectedSessions(dir, names) ==
    IF Len(names) = 0 THEN <<>>
    ELSE (IF dir.files[Head(names)].shape = "object"
          THEN StringPathItems(dir.files[Head(names)], Head(names)) ELSE <<>>)
         \o ExpectedSessions(dir, Tail(names))

\* what a loader that drops exactly the elements without a string filePath returns
ExpectedEntries(p) ==
    IF p = REVERT_JSON
    THEN (IF disk.reverts.exists THEN ExpectedSessions(disk.reverts, RevertFileNames(disk.reverts))
          ELSE <<>>)
    ELSE LET doc == IF p = CONTEXT_JSON THEN disk.context ELSE disk.changes
         IN IF doc.shape \in {"array", "object"} THEN StringPathItems(doc, <<>>) ELSE <<>>

\* C10: every entry a loader returns has a string filePath; elements whose
\* filePath is missing or not a string are dropped, no error is shown for
\* them and the other elements of the document are all returned.
C10_LoaderDropsOnlyInvalidEntries ==
    \A i \in CallIds : calls[i].pc = "got" =>
        LET r == calls[i].data
            p == calls[i].provider
        IN /\ \A k \in 1..Len(r.list) : IsString(r.list[k].filePath)
           /\ [k \in 1..Len(r.list) |->
                  [path |-> r.list[k].filePath.s, session |-> r.list[k].revertSession]]
                 = ExpectedEntries(p)
           /\ (r.err => (IF p = CONTEXT_JSON THEN disk.context ELSE disk.changes).shape = "malformed")

\* ---------------------------------------------- properties of the loading
\* C4: between two consecutive refresh() calls the external source of a
\* provider is read at most once, also when several getChildren calls are
\* issued before the first load has resolved.
C4_SingleFlightLoad == \A p \in Providers : reads[p] <= 1

\* C5: after refresh() the cache is unloaded and the next getChildren call
\* answers from a read that started after that refresh; the result of a read
\* started before the refresh never ends up as the cached snapshot.
C5_RefreshForcesReload ==
    \A p \in Providers :
        /\ relativeFilePaths[p].loaded => ~cacheOld[p]
        /\ fileData[p].loaded => ~cacheOld[p]
        /\ \A a \in answers[p] : ~a.stale

\* C6: two getChildren calls for the same node that both complete with no
\* refresh() between them return the same names and classifications.
C6_SnapshotConsistency ==
    \A p \in Providers : \A a, b \in answers[p] :
        (a.element = b.element /\ ~a.result.threw /\ ~b.result.threw) =>
            View(a.result) = View(b.result)

\* C7: every change, creation or deletion of a document that the loader of a
\* source reads is followed by that source's cache being unloaded and a
\* tree-change event being fired: as long as such a change has not been
\* followed by the refresh, a notification that will run it is queued.
C7_ChangeIsFollowedByRefresh == \A p \in Providers : dirty[p] => pendingEvents > 0

\* ------------------------------------------------- properties, second part
\* C11: no view shows a node derived from an entry whose path is empty or
\* only whitespace: no root expansion of any view returns a node whose name
\* is empty or blank.
C11_BlankPathsExcluded ==
    \A p \in Providers : \A a \in answers[p] :
        (~a.result.threw /\ a.element.root) =>
            \A i \in 1..Len(a.result.items) :
                a.result.items[i].hasPath => Len(Trim(a.result.items[i].label)) > 0

\* the document a generic provider loads
DocOf(p) == IF p = CONTEXT_JSON THEN disk.context ELSE disk.changes

\* the source of the provider does not exist on disk
SourceAbsent(p) ==
    IF p = REVERT_JSON THEN ~disk.reverts.exists ELSE DocOf(p).shape = "absent"

\* C12: when the document of a source (for the reverts source, the reverts
\* directory) does not exist, the loader returns an empty entry list and no
\* error message is shown.
C12_MissingSourceIsEmptyAndSilent ==
    /\ \A i \in CallIds :
          (calls[i].pc = "got" /\ SourceAbsent(calls[i].provider)) =>
             /\ calls[i].data.list = <<>>
             /\ ~calls[i].data.err
    /\ \A p \in Providers : \A a \in answers[p] :
          (SourceAbsent(p) /\ ~a.cached) => (~a.err /\ ~a.result.threw)

\* a load of a source that does not exist has returned and the call that
\* issued it has completed
C12_Witness ==
    \E p \in Providers :
        /\ SourceAbsent(p)
        /\ relativeFilePaths[p].loaded
        /\ \E a \in answers[p] : ~a.cached

\* the document of the provider exists but cannot be parsed, or parses to a
\* value that is neither an array nor an object with a changes array
SourceBroken(p) == p # REVERT_JSON /\ DocOf(p).shape \in {"malformed", "other"}

\* C13: a document with invalid syntax or the wrong shape is reported to the
\* user by the load attempt, yields an empty entry list that stays cached,
\* and is not read again before refresh().
C13_BrokenDocumentReportedOnce ==
    \A p \in Providers : SourceBroken(p) =>
        /\ \A i \in CallIds :
              (calls[i].pc = "got" /\ calls[i].provider = p) =>
                 (calls[i].data.err /\ calls[i].data.list = <<>>)
        /\ \A a \in answers[p] : ~a.cached => a.err
        /\ relativeFilePaths[p].loaded => relativeFilePaths[p].list = <<>>
        /\ reads[p] <= 1

\* the session documents of the reverts directory that cannot be parsed
BrokenSessions == {n \in DOMAIN disk.reverts.files : disk.reverts.files[n].shape = "malformed"}

\* the reverts directory holding only the session document n
OnlySession(n) == [exists |-> TRUE, files |-> (n :> disk.reverts.files[n])]

\* C14: in the reverts loader a session document that cannot be read or
\* parsed contributes no entries, and the entries of every other session
\* document are all returned, wherever the broken document is in the read
\* order.
C14_BrokenSessionSkipped ==
    \A i \in CallIds :
        (calls[i].pc = "got" /\ calls[i].provider = REVERT_JSON /\ disk.reverts.exists) =>
            LET list == calls[i].data.list IN
            /\ \A k \in 1..Len(list) : list[k].revertSession \notin BrokenSessions
            /\ \A n \in DOMAIN disk.reverts.files \ BrokenSessions :
                  SelectSeq(list, LAMBDA f : f.revertSession = n)
                     = readRevertFiles(OnlySession(n)).list
            /\ ~calls[i].data.err

\* the reverts source was loaded from one broken and one well-formed session
\* document, and the entries of the well-formed one were returned
C14_Witness ==
    \E i \in CallIds :
        /\ calls[i].pc = "got" /\ calls[i].provider = REVERT_JSON
        /\ BrokenSessions # {}
        /\ Len(calls[i].data.list) > 0

\* C15: the reverts loader returns the entries of a session document with a
\* larger embedded sequence number before those of one with a smaller number,
\* and the session variants of a multi-session placeholder are listed in
\* descending sequence number.
C15_NewestSessionFirst ==
    /\ \A i \in CallIds :
          (calls[i].pc = "got" /\ calls[i].provider = REVERT_JSON) =>
             LET list == calls[i].data.list IN
             \A k, l \in 1..Len(list) :
                k < l => SessionNum(list[k].revertSession) >= SessionNum(list[l].revertSession)
    /\ \A a \in answers[REVERT_JSON] :
          (~a.result.threw /\ a.element.jsonSourceFile = REVERT_MULTI_SESSION) =>
             \A k, l \in 1..Len(a.result.items) :
                k < l => SessionNum(a.result.items[k].jsonSourceFile)
                            > SessionNum(a.result.items[l].jsonSourceFile)

\* a cache whose entry list is in the opposite order
ReverseCache(cache) ==
    [cache EXCEPT !.list = [i \in 1..Len(cache.list) |-> cache.list[Len(cache.list) + 1 - i]]]

\* C16: when the entry list holds a path p and a longer path p/q, the node
\* for p at p's parent is single and its classification as leaf or directory
\* depends on the set of entries only: resolving the same node against the
\* entries in the opposite order gives the same names and classifications.
C16_CollisionOrderIndependent ==
    \A p \in Providers : \A a \in ResolverAnswers(p) :
        relativeFilePaths[p].loaded =>
            /\ \A i, j \in 1..Len(a.result.items) :
                  i # j => a.result.items[i].label # a.result.items[j].label
            /\ View(getChildren(p, a.element, ReverseCache(relativeFilePaths[p]),
                                ReverseCache(fileData[p]), ws, sep))
                  = View(a.result)

\* the child list of the root of the provider's view, from its cache
RootItems(p) == getChildren(p, ROOT, relativeFilePaths[p], fileData[p], ws, sep).items

\* C17: in the reverts view the children of a multi-session placeholder are
\* non-expandable session variants bound to one session, leaves and session
\* variants are not offered for expansion, no expansion of a returned node
\* yields the root's child list again, and every chain of expansions is
\* finite (each expansion of a directory returns nodes one level deeper).
C17_ExpansionChains ==
    LET p == REVERT_JSON IN
    \A a \in answers[p] :
        (~a.result.threw /\ relativeFilePaths[p].loaded) =>
            LET items == a.result.items IN
            /\ a.element.jsonSourceFile = REVERT_MULTI_SESSION =>
                  \A i \in 1..Len(items) :
                     /\ ~items[i].collapsible
                     /\ items[i].isFile
                     /\ StartsWith(items[i].jsonSourceFile, REVERT_PREFIX)
                     /\ EndsWith(items[i].jsonSourceFile, JSON_SUFFIX)
            /\ \A i \in 1..Len(items) : items[i].isFile => ~items[i].collapsible
            /\ ~a.element.root => items # RootItems(p)
            /\ (~a.element.root /\ a.element.jsonSourceFile # REVERT_MULTI_SESSION) =>
                  \A i \in 1..Len(items) :
                     Len(SegsOf(items[i].fullPath)) = Len(SegsOf(a.element.fullPath)) + 1

\* the cache of the provider is loaded as a whole: the path list is loaded
\* and, for the changes and reverts sources, the entry data is loaded and is
\* the data the path list was filtered from
CacheWhole(p) ==
    /\ relativeFilePaths[p].loaded
    /\ p \in {CHANGES_JSON, REVERT_JSON} =>
          /\ fileData[p].loaded
          /\ ValidPaths(fileData[p].list) = relativeFilePaths[p].list

Choices == {"install", "manual", "fallback", "cancel"}

\* ensureCliAvailable(): found is what findAicodecCli() returns first,
\* choice the answer to the prompt, manualValid whether the executable picked
\* in promptForCliPath passes isCliValid (the path is then stored, and the
\* second findAicodecCli() returns it)
ensureCliAvailable(found, choice, manualValid) ==
    IF found THEN [available |-> TRUE, useFallback |-> FALSE]
    ELSE CASE choice = "install" -> [available |-> FALSE, useFallback |-> FALSE]
           [] choice = "manual" -> [available |-> manualValid, useFallback |-> FALSE]
           [] choice = "fallback" -> [available |-> FALSE, useFallback |-> TRUE]
           [] OTHER -> [available |-> FALSE, useFallback |-> FALSE]

\* path.join(workspaceRoot, filePath), as the key of the workspace file
JoinKey(filePath, sepc) == Join(NormSegs(Split(filePath, {sepc}), <<>>), SLASH)

RECURSIVE WriteFiles(_, _, _, _)
\* the write loop of applyOrRevertAll over files, from the workspace files w:
\* path.join throws on a filePath that is not a string and Buffer.from on a
\* content that is not, writeFile rejects for the workspace root itself; each
\* ends the loop with the files before it written
WriteFiles(files, w, keys, sepc) ==
    IF Len(files) = 0 THEN [ws |-> w, keys |-> keys, threw |-> FALSE]
    ELSE LET file == Head(files) IN
         IF \/ ~IsString(file.filePath) \/ ~IsString(file.content)
            \/ JoinKey(file.filePath.s, sepc) = <<>>
         THEN [ws |-> w, keys |-> keys, threw |-> TRUE]
         ELSE LET k == JoinKey(file.filePath.s, sepc)
              IN WriteFiles(Tail(files), (k :> file.content.s) @@ w, keys \cup {k}, sepc)

\* the files 'aicodec apply' and 'aicodec revert' write: the entries of the
\* source, all of them or those of the --files option (paths is then the set
\* of the paths named).  The CLI is a program of its own; of what it does the
\* model keeps the writes to the workspace files.
CliFiles(jsonFile, all, paths, d) ==
    SelectSeq(readAicodecJson(jsonFile, d).list,
              LAMBDA f : /\ IsString(f.filePath) /\ IsString(f.content)
                         /\ JoinKey(f.filePath.s, SLASH) # <<>>
                         /\ all \/ \E q \in paths : pathsEqual(f.filePath.s, q))

\* the entries the built-in implementation of applyOrRevertSingle searches:
\* those of the session document of the item, or those of readAicodecJson
BuiltinFiles(item, jsonFile, d) ==
    IF jsonFile = REVERT_JSON /\ StartsWith(item.jsonSourceFile, REVERT_PREFIX)
    THEN LET doc == DocAt(d, Target(REVERTS_DIR, item.jsonSourceFile)) IN
         IF doc.shape \in {"absent", "malformed", "empty"} THEN [threw |-> TRUE, list |-> <<>>]
         ELSE IF doc.shape # "object" THEN [threw |-> FALSE, list |-> <<>>]
         ELSE IF \E i \in 1..Len(doc.items) : ~doc.items[i].obj
         THEN [threw |-> TRUE, list |-> <<>>]
         ELSE [threw |-> FALSE,
               list |-> [i \in 1..Len(doc.items) |->
                           AicodecFile(doc.items[i].filePath,
                                       IF Truthy(doc.items[i].content)
                                       THEN doc.items[i].content ELSE JStr(<<>>),
                                       <<>>)]]
    ELSE [threw |-> FALSE, list |-> readAicodecJson(jsonFile, d).list]

\* the file nodes of a view: the nodes its apply, revert and diff commands
\* are invoked on
CommandItems(p) ==
    {it \in UNION {ItemsOf(a.result) : a \in answers[p]} : it.isFile /\ it.hasPath}

\* what a command leaves alone when it does not call refresh()
NoRefresh == UNCHANGED <<relativeFilePaths, fileData, answers, reads, cacheOld, dirty, calls>>

\* the record of one run of an apply or revert command
Run(cmd, jsonFile, choice, cliInvoked, builtinWrote, wrote) ==
    [cmd |-> cmd, jsonFile |-> jsonFile, useCli |-> useCli, found |-> cliFound,
     choice |-> IF useCli /\ ~cliFound THEN choice ELSE "none",
     cliInvoked |-> cliInvoked, builtinWrote |-> builtinWrote, wrote |-> wrote]

\* applyOrRevertSingle(item, jsonFile); cliOk is result.success of the CLI
ApplyOrRevertSingle(item, jsonFile, choice, manualValid, cliOk) ==
    LET relativePath == item.fullPath
        cli == ensureCliAvailable(cliFound, choice, manualValid)
        viaCli == useCli /\ cli.available
        builtin == ~useCli \/ (~cli.available /\ cli.useFallback)
        read == BuiltinFiles(item, jsonFile, disk)
        idx == FindByFilePath(read.list, relativePath)
        targetFile == read.list[idx]
        builtinWrites == builtin /\ ~read.threw /\ idx # 0 /\ IsString(targetFile.content)
        key == WsKey(relativePath, sep)
        byCli == WriteFiles(CliFiles(jsonFile, FALSE, {relativePath}, disk), ws, {}, sep)
    IN /\ NoTurnInProgress
       /\ item \in CommandItems(jsonFile)
       /\ (useCli /\ ~cliFound) \/ choice = "cancel"
       /\ (useCli /\ ~cliFound /\ choice = "manual") \/ ~manualValid
       /\ viaCli \/ ~cliOk
       /\ cliFound' = (cliFound \/ (useCli /\ cli.available))
       /\ ws' = IF viaCli /\ cliOk THEN byCli.ws
                ELSE IF builtinWrites THEN (key :> targetFile.content.s) @@ ws
                ELSE ws
       /\ lastRun' = Run("single", jsonFile, choice, viaCli,
                         IF builtinWrites THEN {key} ELSE {},
                         IF viaCli /\ cliOk THEN byCli.keys
                         ELSE IF builtinWrites THEN {key} ELSE {})
       /\ IF (viaCli /\ cliOk) \/ builtinWrites THEN Refresh ELSE NoRefresh
       /\ UNCHANGED hostVars
       /\ UNCHANGED <<sep, disk, visible, pendingEvents, useCli, tempFiles,
                      workspaceState, editSessions, openDocs>>

\* applyOrRevertAll(jsonFile)
ApplyOrRevertAll(jsonFile, choice, manualValid, cliOk) ==
    LET cli == ensureCliAvailable(cliFound, choice, manualValid)
        viaCli == useCli /\ cli.available
        builtin == ~useCli \/ (~cli.available /\ cli.useFallback)
        files == readAicodecJson(jsonFile, disk).list
        byBuiltin == WriteFiles(files, ws, {}, sep)
        byCli == WriteFiles(CliFiles(jsonFile, TRUE, {}, disk), ws, {}, sep)
    IN /\ NoTurnInProgress
       /\ (useCli /\ ~cliFound) \/ choice = "cancel"
       /\ (useCli /\ ~cliFound /\ choice = "manual") \/ ~manualValid
       /\ viaCli \/ ~cliOk
       /\ cliFound' = (cliFound \/ (useCli /\ cli.available))
       /\ ws' = IF viaCli /\ cliOk THEN byCli.ws
                ELSE IF builtin THEN byBuiltin.ws
                ELSE ws
       /\ lastRun' = Run("all", jsonFile, choice, viaCli,
                         IF builtin THEN byBuiltin.keys ELSE {},
                         IF viaCli /\ cliOk THEN byCli.keys
                         ELSE IF builtin THEN byBuiltin.keys ELSE {})
       /\ IF (viaCli /\ cliOk) \/ (builtin /\ ~byBuiltin.threw) THEN Refresh ELSE NoRefresh
       /\ UNCHANGED hostVars
       /\ UNCHANGED <<sep, disk, visible, pendingEvents, useCli, tempFiles,
                      workspaceState, editSessions, openDocs>>

\* path.basename(fullPath)
Basename(fullPath, sepc) ==
    LET segs == Split(fullPath, {sepc}) IN IF Len(segs) = 0 THEN <<>> ELSE segs[Len(segs)]

PROPOSED_SUFFIX ==
    <<".", "a", "i", "c", "o", "d", "e", "c", "-", "p", "r", "o", "p", "o", "s", "e", "d">>

\* tempFileName of openDiff; the files of .temp are known by their names
TempFileName(item, sepc) == Basename(item.fullPath, sepc) \o PROPOSED_SUFFIX

\* openDiff(item) for an item of changes.json: the proposed content is
\* written to the temp file, the key is stored, the diff is opened, and the
\* watcher and the close listener are registered
OpenDiff(item) ==
    LET relativePath == item.fullPath
        files == readAicodecJson(CHANGES_JSON, disk).list
        idx == FindByFilePath(files, relativePath)
        tempFilePath == TempFileName(item, sep)
    IN /\ NoTurnInProgress
       /\ item \in CommandItems(CHANGES_JSON)
       /\ item.jsonSourceFile = CHANGES_JSON
       /\ idx # 0
       /\ IsString(files[idx].content)
       /\ tempFiles' = (tempFilePath :> files[idx].content.s) @@ tempFiles
       /\ workspaceState' = workspaceState \cup {tempFilePath}
       /\ openDocs' = openDocs \cup {tempFilePath}
       /\ editSessions' = editSessions \cup
              {[tempFilePath |-> tempFilePath, relativePath |-> relativePath]}
       /\ NoRefresh
       /\ UNCHANGED hostVars
       /\ UNCHANGED <<sep, disk, ws, visible, pendingEvents, useCli, cliFound, lastRun>>

\* the user saves the proposed side of an open diff
SaveTemp(tempFilePath, content) ==
    /\ tempFilePath \in openDocs
    /\ IF tempFilePath \in DOMAIN tempFiles THEN tempFiles[tempFilePath] # content ELSE TRUE
    /\ tempFiles' = (tempFilePath :> content) @@ tempFiles
    /\ NoRefresh
    /\ UNCHANGED hostVars
    /\ UNCHANGED <<sep, disk, ws, visible, pendingEvents, useCli, cliFound, lastRun,
                   workspaceState, editSessions, openDocs>>

RECURSIVE UpdateEntries(_, _, _)
\* updateChangesJson of each of the sessions, one after the other: the entry
\* whose filePath is the relativePath of the session gets the content of the
\* temp file; a null element makes f.filePath throw, which leaves the
\* document as it is
UpdateEntries(items, sessions, changedContent) ==
    IF sessions = {} THEN items
    ELSE LET s == CHOOSE x \in sessions : TRUE
             hits == {i \in 1..Len(items) : items[i].filePath = JStr(s.relativePath)}
             first == CHOOSE i \in hits : \A j \in hits : i <= j
             nullBefore == \E i \in 1..Len(items) :
                              ~items[i].obj /\ (hits = {} \/ i < first)
             updated == IF hits = {} \/ nullBefore THEN items
                        ELSE [items EXCEPT ![first].content = JStr(changedContent)]
         IN UpdateEntries(updated, sessions \ {s}, changedContent)

\* the sessions whose updateChangesJson writes changes.json back
Writers(items, sessions) ==
    {s \in sessions :
        LET hits == {i \in 1..Len(items) : items[i].filePath = JStr(s.relativePath)} IN
        /\ hits # {}
        /\ ~\E i \in 1..Len(items) : ~items[i].obj /\ \A j \in hits : i < j}

\* a change event of the file system on a temp file: watcher.onDidChange of
\* every live watcher of that path runs updateChangesJson
TempFileEvent(tempFilePath) ==
    LET sessions == {s \in editSessions : s.tempFilePath = tempFilePath}
        readable == /\ tempFilePath \in DOMAIN tempFiles
                    /\ disk.changes.shape \in {"array", "object"}
        writers == IF readable THEN Writers(disk.changes.items, sessions) ELSE {}
    IN /\ NoTurnInProgress
       /\ disk' = IF writers = {} THEN disk
                  ELSE [disk EXCEPT !.changes.items =
                           UpdateEntries(@, sessions, tempFiles[tempFilePath])]
       /\ pendingEvents' = IF writers # {} /\ pendingEvents < MaxEvents
                           THEN pendingEvents + 1 ELSE pendingEvents
       /\ dirty' = [p \in Providers |->
                      dirty[p] \/ (disk' # disk /\ p = CHANGES_JSON /\ reads[p] > 0)]
       /\ UNCHANGED commandVars
       /\ UNCHANGED hostVars
       /\ UNCHANGED <<sep, ws, visible, relativeFilePaths, fileData, calls,
                      answers, reads, cacheOld>>

\* onDidCloseTextDocument for the temp document: every close listener
\* registered for that path disposes its watcher and itself, clears the key
\* and deletes the file
CloseDoc(tempFilePath) ==
    LET sessions == {s \in editSessions : s.tempFilePath = tempFilePath} IN
    /\ tempFilePath \in openDocs
    /\ openDocs' = openDocs \ {tempFilePath}
    /\ editSessions' = editSessions \ sessions
    /\ workspaceState' = IF sessions # {} THEN workspaceState \ {tempFilePath}
                         ELSE workspaceState
    /\ tempFiles' = IF sessions # {} /\ tempFilePath \in DOMAIN tempFiles
                    THEN Without(tempFiles, tempFilePath) ELSE tempFiles
    /\ NoRefresh
    /\ UNCHANGED hostVars
    /\ UNCHANGED <<sep, disk, ws, visible, pendingEvents, useCli, cliFound, lastRun>>

\* 'Reload Window': the extension host ends, which disposes the
\* subscriptions of the context (deactivate() does nothing else), and
\* activate() runs again: new providers, and registerCommands calls
\* cleanupTempDirectory.  workspaceState is kept by the workbench; restored
\* are the documents the workbench opens again.
ReloadWindow(restored) ==
    /\ restored \subseteq openDocs
    /\ editSessions' = {}
    /\ tempFiles' = NoTempFiles
    /\ openDocs' = restored
    /\ relativeFilePaths' = [p \in Providers |-> Unloaded]
    /\ fileData' = [p \in Providers |-> Unloaded]
    /\ calls' = [i \in CallIds |-> IdleCall]
    /\ pendingEvents' = 0
    /\ answers' = [p \in Providers |-> {}]
    /\ reads' = [p \in Providers |-> 0]
    /\ cacheOld' = [p \in Providers |-> FALSE]
    /\ dirty' = [p \in Providers |-> FALSE]
    /\ UNCHANGED hostVars
    /\ UNCHANGED <<sep, disk, ws, visible, useCli, cliFound, lastRun, workspaceState>>

\* ------------------------------------------- the command specification
PathBA == <<"b", "/", "a">>
ContentY == <<"y">>
ItemBA == JObj(JStr(PathBA), JStr(ContentY))

\* the changes.json documents of the command specification: two entries
\* with the same basename, and an entry in a folder
CommandDocs == {Doc("array", <<ItemA, ItemBA>>), Doc("object", <<ItemAB>>)}

\* the contents the user saves
Contents == {ContentX, ContentY}

\* the temp files of the entries of CommandDocs
TempFileNames == {PathA \o PROPOSED_SUFFIX, PathB \o PROPOSED_SUFFIX}

\* The command specification: the changes and reverts views are shown, and
\* the apply and revert commands run on the file nodes they show.
InitCmd ==
    /\ sep = SLASH
    /\ visible = {CHANGES_JSON, REVERT_JSON}
    /\ \E c \in CommandDocs :
          disk = [context |-> AbsentDoc, changes |-> c,
                  reverts |-> RevertsWith(AbsentDoc, FirstSessionDoc)]
    /\ ws = NoWs
    /\ InitProviders
    /\ useCli \in BOOLEAN
    /\ cliFound \in BOOLEAN
    /\ InitCommands
    /\ InitHost

NextCmd ==
    \/ \E p \in Providers : \E element \in Expandable(p) : GetChildrenStart(p, element, 1)
    \/ ReadFile(1)
    \/ Resume(1)
    \/ \E jsonFile \in {CHANGES_JSON, REVERT_JSON} : \E item \in CommandItems(jsonFile) :
          \E choice \in Choices, manualValid \in BOOLEAN, cliOk \in BOOLEAN :
             ApplyOrRevertSingle(item, jsonFile, choice, manualValid, cliOk)
    \/ \E jsonFile \in {CHANGES_JSON, REVERT_JSON} :
          \E choice \in Choices, manualValid \in BOOLEAN, cliOk \in BOOLEAN :
             ApplyOrRevertAll(jsonFile, choice, manualValid, cliOk)

SpecCmd == InitCmd /\ [][NextCmd]_vars

\* The diff specification: the changes view is shown, diffs of its file
\* nodes are opened, edited and closed, and the window is reloaded.
InitDiff ==
    /\ sep = SLASH
    /\ visible = {CHANGES_JSON}
    /\ \E c \in CommandDocs :
          disk = [context |-> AbsentDoc, changes |-> c, reverts |-> NoReverts]
    /\ ws = NoWs
    /\ InitProviders
    /\ useCli = TRUE
    /\ cliFound = TRUE
    /\ InitCommands
    /\ InitHost

NextDiff ==
    \/ \E p \in Providers : \E element \in Expandable(p) : GetChildrenStart(p, element, 1)
    \/ ReadFile(1)
    \/ Resume(1)
    \/ WatcherEvent
    \/ \E item \in CommandItems(CHANGES_JSON) : OpenDiff(item)
    \/ \E t \in TempFileNames, content \in Contents : SaveTemp(t, content)
    \/ \E t \in TempFileNames : TempFileEvent(t)
    \/ \E t \in TempFileNames : CloseDoc(t)
    \/ \E restored \in SUBSET openDocs : ReloadWindow(restored)

SpecDiff == InitDiff /\ [][NextDiff]_vars

C20_ClosedDiffIsCleanedUp ==
    \A t \in TempFileNames :
        t \notin openDocs =>
            /\ t \notin DOMAIN tempFiles
            /\ \A s \in editSessions : s.tempFilePath # t
            /\ t \notin workspaceState

\* ------------------------------------------ sessions of the reverts view
\* the session document named s holds an entry whose path, with its
\* separators normalized, is x
HoldsEntry(s, x) ==
    /\ s \in DOMAIN disk.reverts.files
    /\ \E f \in SeqToSet(SessionEntries(disk.reverts.files[s], s)) :
          IsString(f.filePath) /\ Resep(f.filePath.s, SLASH) = x

\* C21: every session a multi-session placeholder carries for its path, and
\* every session variant returned under it, names a session document that
\* holds an entry for that path.
C21_VariantsHoldThePath ==
    \A a \in answers[REVERT_JSON] :
        ~a.result.threw =>
            \A i \in 1..Len(a.result.items) :
                LET it == a.result.items[i] IN
                /\ it.jsonSourceFile = REVERT_MULTI_SESSION =>
                      \A k \in 1..Len(it.sessions) : HoldsEntry(it.sessions[k], it.multiSessionPath)
                /\ (~a.element.root /\ a.element.jsonSourceFile = REVERT_MULTI_SESSION) =>
                      HoldsEntry(it.jsonSourceFile, a.element.multiSessionPath)

\* the names a result lists
Labels(result) == {result.items[i].label : i \in 1..Len(result.items)}

\* C22: expanding an ordinary directory node of the reverts view, whatever
\* its name, lists the children of the entries of all sessions: the names
\* returned are those returned for the same node without a source tag, for
\* which no session filter applies.
C22_DirectoriesListAllSessions ==
    \A a \in answers[REVERT_JSON] :
        (/\ ~a.result.threw /\ ~a.element.root
         /\ a.element.jsonSourceFile # REVERT_MULTI_SESSION
         /\ fileData[REVERT_JSON].loaded) =>
            Labels(a.result) =
                Labels(getChildren(REVERT_JSON, [a.element EXCEPT !.jsonSourceFile = <<>>],
                                   relativeFilePaths[REVERT_JSON], fileData[REVERT_JSON],
                                   ws, sep))

\* ------------------------------------------------- read-only documents
\* the escapes of encodeURIComponent for the characters used that it escapes;
\* letters, digits, "-" and "." are left as they are
Escapes ==
    ("/" :> <<"2", "F">>) @@ ("\\" :> <<"5", "C">>) @@ (":" :> <<"3", "A">>) @@
    ("%" :> <<"2", "5">>) @@ (" " :> <<"2", "0">>)

RECURSIVE encodeURIComponent(_)
encodeURIComponent(s) ==
    IF Len(s) = 0 THEN <<>>
    ELSE (IF Head(s) \in DOMAIN Escapes THEN <<"%">> \o Escapes[Head(s)] ELSE <<Head(s)>>)
         \o encodeURIComponent(Tail(s))

\* s starts with an escape of one of the characters used
EscapeAt(s) ==
    /\ Len(s) >= 3
    /\ s[1] = "%"
    /\ \E c \in DOMAIN Escapes : Escapes[c] = <<s[2], s[3]>>

Unescaped(s) == CHOOSE c \in DOMAIN Escapes : Escapes[c] = <<s[2], s[3]>>

RECURSIVE percentDecode(_)
\* percentDecode of uri.ts, which Uri.parse applies to each component: every
\* escape is decoded, a "%" that does not start one is kept
percentDecode(s) ==
    IF Len(s) = 0 THEN <<>>
    ELSE IF EscapeAt(s) THEN <<Unescaped(s)>> \o percentDecode(SubSeq(s, 4, Len(s)))
    ELSE <<Head(s)>> \o percentDecode(Tail(s))

RECURSIVE decodeURIComponent(_)
\* decodeURIComponent: a "%" that does not start an escape throws URIError
decodeURIComponent(s) ==
    IF Len(s) = 0 THEN [threw |-> FALSE, s |-> <<>>]
    ELSE IF EscapeAt(s)
    THEN LET rest == decodeURIComponent(SubSeq(s, 4, Len(s)))
         IN [threw |-> rest.threw, s |-> <<Unescaped(s)>> \o rest.s]
    ELSE IF Head(s) = "%" THEN [threw |-> TRUE, s |-> <<>>]
    ELSE LET rest == decodeURIComponent(Tail(s))
         IN [threw |-> rest.threw, s |-> <<Head(s)>> \o rest.s]

DATA_PREFIX == <<"/", "a", "i", "c", "o", "d", "e", "c", "-", "d", "a", "t", "a", "/">>

\* uri.path of AicodecContentProvider.encodeUri(aicodecPath, jsonFile,
\* relativePath): Uri.parse takes "aicodec-data" as the authority and the
\* rest, from its "/" on, as the path, which it decodes
encodeUri(aicodecPath, jsonFile, relativePath) ==
    percentDecode(<<"/">> \o encodeURIComponent(aicodecPath) \o <<":">>
                  \o encodeURIComponent(jsonFile) \o <<":">>
                  \o encodeURIComponent(relativePath))

\* parseUri(uri) on uri.path; parts is empty for the {} it returns
parseUri(uriPath) ==
    LET encodedData == IF StartsWith(uriPath, DATA_PREFIX)
                       THEN Substring(uriPath, Len(DATA_PREFIX)) ELSE uriPath
        parts == Split(encodedData, {":"})
    IN IF Len(parts) < 3 THEN [threw |-> FALSE, parts |-> <<>>]
       ELSE LET a == decodeURIComponent(parts[1])
                j == decodeURIComponent(parts[2])
                r == decodeURIComponent(Join(SubSeq(parts, 3, Len(parts)), ":"))
            IN IF a.threw \/ j.threw \/ r.threw THEN [threw |-> TRUE, parts |-> <<>>]
               ELSE [threw |-> FALSE, parts |-> <<a.s, j.s, r.s>>]

\* the separators path.join splits on: both on win32
HostSeps(sepc) == IF sepc = BSLASH THEN {SLASH, BSLASH} ELSE {SLASH}

\* two absolute paths name the same directory once path.join has
\* normalized them
SameDirectory(p1, p2, sepc) ==
    NormSegs(Split(p1, HostSeps(sepc)), <<>>) = NormSegs(Split(p2, HostSeps(sepc)), <<>>)

\* readAicodecJson(aicodecPath, fileName) for a session document name:
\* changes.filter(item => item && typeof item.filePath === 'string')
ReadSessionJson(doc) ==
    IF doc.shape # "object" THEN <<>>
    ELSE SelectSeq(doc.items, LAMBDA it : it.obj /\ IsString(it.filePath))

INVALID_URI == JStr(<<"E", "r", "r", "o", "r", ":", " ", "I", "n", "v", "a", "l", "i", "d", " ", "U", "R", "I", " ", "f", "o", "r", "m", "a", "t">>)

\* `// Content for ${relativePath} not found in ${jsonFile}`
NotFoundText(relativePath, jsonFile) ==
    JStr(<<"/", "/", " ", "C", "o", "n", "t", "e", "n", "t", " ", "f", "o", "r", " ">> \o relativePath
         \o <<" ", "n", "o", "t", " ", "f", "o", "u", "n", "d", " ", "i", "n", " ">> \o jsonFile)

\* provideTextDocumentContent(uri) for a uri of the aicodec-readonly scheme;
\* configured is the directory the session documents d are in
provideTextDocumentContent(uriPath, configured, d, sepc) ==
    LET parsed == parseUri(uriPath) IN
    IF parsed.threw THEN [threw |-> TRUE, text |-> JUndef]
    ELSE IF parsed.parts = <<>> \/ \E i \in 1..3 : parsed.parts[i] = <<>>
    THEN [threw |-> FALSE, text |-> INVALID_URI]
    ELSE LET aicodecPath == parsed.parts[1]
             jsonFile == parsed.parts[2]
             relativePath == parsed.parts[3]
             files == IF /\ SameDirectory(aicodecPath, configured, sepc)
                         /\ StartsWith(jsonFile, REVERT_PREFIX) /\ EndsWith(jsonFile, JSON_SUFFIX)
                         /\ jsonFile \in DOMAIN d.reverts.files
                      THEN ReadSessionJson(d.reverts.files[jsonFile])
                      ELSE <<>>
             idx == FindByFilePath(files, relativePath)
         IN [threw |-> FALSE,
             text |-> IF idx # 0 /\ Truthy(files[idx].content) THEN files[idx].content
                      ELSE NotFoundText(relativePath, jsonFile)]

\* openDiff(item) for an item that is not of changes.json: the diff shows the
\* document of the aicodec-readonly uri on its right side
OpenReadonlyDiff(item) ==
    LET aicodecPath == AicodecPathOf(sep)
        relativePath == item.fullPath
        uriPath == encodeUri(aicodecPath, item.jsonSourceFile, relativePath)
    IN /\ item \in CommandItems(REVERT_JSON)
       /\ item.jsonSourceFile # <<>>
       /\ lastRun' = [cmd |-> "readonlyDiff",
                      sent |-> <<aicodecPath, item.jsonSourceFile, relativePath>>,
                      parsed |-> parseUri(uriPath),
                      shown |-> provideTextDocumentContent(uriPath, aicodecPath, disk, sep)]
       /\ NoRefresh
       /\ UNCHANGED hostVars
       /\ UNCHANGED <<sep, disk, ws, visible, pendingEvents, useCli, cliFound, tempFiles,
                      workspaceState, editSessions, openDocs>>

PathPct == <<"a", "%", "2", "F", "b">>
ItemPct == JObj(JStr(PathPct), JStr(ContentY))
ItemAEmptyContent == JObj(JStr(PathA), JStr(<<>>))

\* the entries of the session documents of the read-only specification
ReadonlyItems == {ItemA, ItemAEmptyContent, ItemAB, ItemAbackB, ItemPct}

ReadonlyDocs ==
    {AbsentDoc} \cup {Doc("object", items) : items \in SeqsUpTo(ReadonlyItems, MaxSessionEntries)}

\* The read-only specification: the reverts view is shown and diffs of its
\* file nodes are opened.
InitReadonly ==
    /\ sep \in {SLASH, BSLASH}
    /\ visible = {REVERT_JSON}
    /\ \E r1 \in {AbsentDoc, Doc("object", <<ItemA>>), Doc("object", <<ItemAB>>)},
          r2 \in ReadonlyDocs :
          disk = [context |-> AbsentDoc, changes |-> AbsentDoc,
                  reverts |-> RevertsWith(r1, r2)]
    /\ ws = NoWs
    /\ InitProviders
    /\ useCli = TRUE
    /\ cliFound = TRUE
    /\ InitCommands
    /\ InitHost

NextReadonly ==
    \/ \E element \in Expandable(REVERT_JSON) : GetChildrenStart(REVERT_JSON, element, 1)
    \/ Resume(1)
    \/ \E item \in CommandItems(REVERT_JSON) : OpenReadonlyDiff(item)

SpecReadonly == InitReadonly /\ [][NextReadonly]_vars

\* the content recorded for the path of a node in the session document s:
\* that of the first entry whose path, with its separators normalized, is
\* the path of the node
RecordedFor(s, nodePath) ==
    LET items == IF s \in DOMAIN disk.reverts.files /\ disk.reverts.files[s].shape = "object"
                 THEN disk.reverts.files[s].items ELSE <<>>
        hits == {i \in 1..Len(items) :
                    /\ items[i].obj /\ IsString(items[i].filePath)
                    /\ SegsOf(items[i].filePath.s) = SegsOf(nodePath)}
    IN IF hits = {} THEN JUndef
       ELSE items[CHOOSE i \in hits : \A j \in hits : i <= j].content

\* C23: the read-only side of the diff of a reverts leaf with source tag S
\* and path p shows the content recorded for p in document S, the empty
\* string included, and the uri parses back to the triple it was made from.
C23_ReadonlyShowsRecordedContent ==
    lastRun.cmd = "readonlyDiff" =>
        LET recorded == RecordedFor(lastRun.sent[2], lastRun.sent[3]) IN
        /\ ~lastRun.parsed.threw /\ lastRun.parsed.parts = lastRun.sent
        /\ IsString(recorded) => (~lastRun.shown.threw /\ lastRun.shown.text = recorded)

\* ------------------------------------------------------- applied status
\* the proposed content of the entry of fileData for the path of a node: that
\* of the first entry whose path, with its separators normalized, is the
\* path of the node
ProposedFor(fd, nodePath) ==
    LET hits == {i \in 1..Len(fd.list) :
                    /\ IsString(fd.list[i].filePath)
                    /\ SegsOf(fd.list[i].filePath.s) = SegsOf(nodePath)}
    IN IF hits = {} THEN JUndef
       ELSE fd.list[CHOOSE i \in hits : \A j \in hits : i <= j].content

\* the content on disk of the workspace file of a node, a missing file
\* counting as empty
OnDisk(nodePath) ==
    LET k == Join(SegsOf(nodePath), SLASH) IN IF k \in DOMAIN ws THEN ws[k] ELSE <<>>

\* C24: a file node of the changes view is marked applied exactly when the
\* content on disk of its file equals the proposed content of the entry of
\* its path, CRLF converted to LF on both sides; otherwise it is marked
\* pending.
C24_AppliedIffContentEqual ==
    \A a \in answers[CHANGES_JSON] :
        (~a.result.threw /\ fileData[CHANGES_JSON].loaded) =>
            \A i \in 1..Len(a.result.items) :
                LET it == a.result.items[i]
                    proposed == ProposedFor(fileData[CHANGES_JSON], it.fullPath)
                IN it.isFile =>
                      /\ it.isApplied \in {"yes", "no"}
                      /\ it.isApplied = "yes" <=>
                            /\ IsString(proposed)
                            /\ ReplaceCRLF(proposed.s) = ReplaceCRLF(OnDisk(it.fullPath))

\* ---------------------------------------------------------------------------
\* The startup update check (extension.ts checkForCliUpdates)
\* ---------------------------------------------------------------------------

\* v.split('.').map(Number)
VersionParts(v) ==
    LET parts == Split(v, {"."}) IN [i \in 1..Len(parts) |-> ParseInt(parts[i], 0)]

RECURSIVE CompareFrom(_, _, _)
CompareFrom(parts1, parts2, i) ==
    LET n == IF Len(parts1) > Len(parts2) THEN Len(parts1) ELSE Len(parts2)
        part1 == IF i <= Len(parts1) THEN parts1[i] ELSE 0
        part2 == IF i <= Len(parts2) THEN parts2[i] ELSE 0
    IN IF i > n THEN 0
       ELSE IF part1 < part2 THEN -1
       ELSE IF part1 > part2 THEN 1
       ELSE CompareFrom(parts1, parts2, i + 1)

\* a comparison of the two version strings character by character
compareVersions_Lexical(v1, v2) ==
    IF v1 = v2 THEN 0 ELSE IF StrLess(v1, v2) THEN -1 ELSE 1

\* -1 if v1 < v2, 0 if equal, 1 if v1 > v2
compareVersions(v1, v2) ==
    CompareFrom(VersionParts(v1), VersionParts(v2), 1)

MIN_CHECK_VERSION == <<"2", ".", "1", "1", ".", "0">>
MIN_UPDATE_VERSION == <<"2", ".", "1", "1", ".", "3">>

\* what getCliVersion can return: the first \d+\.\d+\.\d+ of the output of
\* `-v`, or null (the empty sequence here)
NoVersion == <<>>
Versions ==
    { <<"2", ".", "9", ".", "0">>,
      <<"2", ".", "1", "0", ".", "9">>,
      <<"2", ".", "1", "1", ".", "0">>,
      <<"2", ".", "1", "1", ".", "2">>,
      <<"2", ".", "1", "1", ".", "3">>,
      <<"2", ".", "1", "1", ".", "1", "0">>,
      <<"3", ".", "0", ".", "0">>,
      <<"1", "0", ".", "0", ".", "0">> }

UpperCase ==
    ("U" :> "u") @@ ("N" :> "n") @@ ("A" :> "a")

\* String.prototype.toLowerCase
toLowerCase(s) ==
    [i \in 1..Len(s) |-> IF s[i] \in DOMAIN UpperCase THEN UpperCase[s[i]] ELSE s[i]]

\* String.prototype.includes
Includes(s, sub) ==
    \E i \in 0..(Len(s) - Len(sub)) : SubSeq(s, i + 1, i + Len(sub)) = sub

UPDATE_AVAILABLE == <<"u","p","d","a","t","e"," ","a","v","a","i","l","a","b","l","e">>
NEW_VERSION == <<"n","e","w"," ","v","e","r","s","i","o","n">>

\* stdout of `update --check`
CheckOutputs ==
    { <<>>,
      <<"U","p","d","a","t","e"," ","a","v","a","i","l","a","b","l","e",":"," ","3">>,
      <<"A"," ","n","e","w"," ","v","e","r","s","i","o","n"," ","i","s"," ","o","u","t">>,
      <<"u","p"," ","t","o"," ","d","a","t","e">> }

ReportsUpdate(stdout) ==
    LET output == toLowerCase(stdout)
    IN Includes(output, UPDATE_AVAILABLE) \/ Includes(output, NEW_VERSION)

VIEW_DOCS == "View Documentation"
LATER == "Later"
DONT_ASK_AGAIN == "Don't Ask Again"
UPDATE_NOW == "Update Now"
Dismissed == "undefined"

\* the buttons of the message a run shows
Buttons(prompt) ==
    CASE prompt = "outdated" -> {VIEW_DOCS, DONT_ASK_AGAIN}
      [] prompt = "manual" -> {VIEW_DOCS, LATER, DONT_ASK_AGAIN}
      [] prompt = "auto" -> {UPDATE_NOW, LATER, DONT_ASK_AGAIN}
      [] OTHER -> {}

\* the message a run shows, "none" when it returns without one
PromptOf(enabled, workspace, cliPath, version, ranOk, stdout) ==
    IF ~enabled \/ ~workspace \/ ~cliPath \/ version = NoVersion THEN "none"
    ELSE IF compareVersions(version, MIN_CHECK_VERSION) < 0 THEN "outdated"
    ELSE IF ~(ranOk /\ stdout # <<>> /\ ReportsUpdate(stdout)) THEN "none"
    ELSE IF compareVersions(version, MIN_UPDATE_VERSION) < 0 THEN "manual"
    ELSE "auto"

\* whether a run gets as far as `update --check`
RunsCheck(enabled, workspace, cliPath, version) ==
    /\ enabled /\ workspace /\ cliPath /\ version # NoVersion
    /\ ~(compareVersions(version, MIN_CHECK_VERSION) < 0)

\* one run of checkForCliUpdates: the inputs are the open workspace, the
\* cliPath setting, the version getCliVersion returns, the result of
\* `update --check` and the button the user picks
CheckForCliUpdates(workspace, cliPath, version, ranOk, stdout, choice) ==
    LET enabled == checkForUpdates
        prompt == PromptOf(enabled, workspace, cliPath, version, ranOk, stdout)
        ranCheck == RunsCheck(enabled, workspace, cliPath, version)
    IN
    /\ choice \in Buttons(prompt) \cup {Dismissed}
    /\ ~ranCheck => (ranOk /\ stdout = <<>>)
    /\ checkForUpdates' = IF choice = DONT_ASK_AGAIN THEN FALSE ELSE checkForUpdates
    /\ lastRun' = [cmd |-> "updateCheck", enabled |-> enabled, workspace |-> workspace,
                   cliPath |-> cliPath, version |-> version, ranCheck |-> ranCheck,
                   stdout |-> IF ranCheck /\ ranOk THEN stdout ELSE <<>>,
                   ranOk |-> ranCheck /\ ranOk,
                   prompt |-> prompt, choice |-> choice,
                   openedDocs |-> prompt # "none" /\ choice = VIEW_DOCS,
                   executedUpdate |-> prompt = "auto" /\ choice = UPDATE_NOW]
    /\ UNCHANGED <<configuredPath, fileWatcher, liveWatchers, hashes>>
    /\ UNCHANGED <<useCli, cliFound, tempFiles, workspaceState, editSessions, openDocs>>
    /\ UNCHANGED <<sep, disk, ws, visible, relativeFilePaths, fileData, calls,
                   pendingEvents, answers, reads, cacheOld, dirty>>

\* the user turns the checkForUpdates setting back on in the settings editor
EnableUpdateCheck ==
    /\ ~checkForUpdates
    /\ checkForUpdates' = TRUE
    /\ lastRun' = NoRun
    /\ UNCHANGED <<configuredPath, fileWatcher, liveWatchers, hashes>>
    /\ UNCHANGED <<useCli, cliFound, tempFiles, workspaceState, editSessions, openDocs>>
    /\ UNCHANGED <<sep, disk, ws, visible, relativeFilePaths, fileData, calls,
                   pendingEvents, answers, reads, cacheOld, dirty>>

InitUpdate ==
    /\ sep \in {SLASH, BSLASH}
    /\ disk = [context |-> AbsentDoc, changes |-> AbsentDoc, reverts |-> NoReverts]
    /\ ws = NoWs
    /\ visible = {}
    /\ InitProviders
    /\ useCli \in BOOLEAN
    /\ cliFound \in BOOLEAN
    /\ InitCommands
    /\ InitHost

NextUpdate ==
    \/ \E workspace \in BOOLEAN, cliPath \in BOOLEAN, version \in Versions \cup {NoVersion},
          ranOk \in BOOLEAN, stdout \in CheckOutputs,
          choice \in {VIEW_DOCS, LATER, DONT_ASK_AGAIN, UPDATE_NOW, Dismissed} :
          CheckForCliUpdates(workspace, cliPath, version, ranOk, stdout, choice)
    \/ EnableUpdateCheck

SpecUpdate == InitUpdate /\ [][NextUpdate]_vars

\* the version as a triple of numbers
VersionTriple(v) == VersionParts(v)

\* a >= b for triples of numbers, component by component
TripleAtLeast(a, b) ==
    \/ a[1] > b[1]
    \/ a[1] = b[1] /\ a[2] > b[2]
    \/ a[1] = b[1] /\ a[2] = b[2] /\ a[3] >= b[3]

\* C25: the update check of the CLI runs only when the setting is on, a
\* workspace and a cliPath are set and the version is at least 2.11.0
\* (numerically, per component); aicodec.update is executed only when in
\* addition the version is at least 2.11.3, the output reports an update and
\* the user chose "Update Now"; "Don't Ask Again" turns the setting off.
C25_UpdateCheckGates ==
    lastRun.cmd = "updateCheck" =>
        /\ lastRun.ranCheck =>
              /\ lastRun.enabled /\ lastRun.workspace /\ lastRun.cliPath
              /\ lastRun.version # NoVersion
              /\ TripleAtLeast(VersionTriple(lastRun.version), <<2, 11, 0>>)
        /\ lastRun.executedUpdate =>
              /\ lastRun.ranCheck
              /\ TripleAtLeast(VersionTriple(lastRun.version), <<2, 11, 3>>)
              /\ lastRun.ranOk
              /\ ReportsUpdate(lastRun.stdout)
              /\ lastRun.choice = UPDATE_NOW
        /\ lastRun.choice = DONT_ASK_AGAIN => ~checkForUpdates

\* a run on version 2.11.10 (above 2.11.3 only numerically) that executed
\* aicodec.update
C25_Witness ==
    /\ lastRun.cmd = "updateCheck"
    /\ lastRun.executedUpdate
    /\ lastRun.version = <<"2", ".", "1", "1", ".", "1", "0">>

\* C26: a step that writes changes.json after an edit of the proposed side
\* of a diff keeps the shape and the number of entries of the document and
\* changes the content of entries of one open diff only: the entries with
\* the relative path for which that diff was opened; this also with diffs
\* open for two entries that have the same base name.
C26_EditChangesOnlyItsEntry ==
    [][disk'.changes # disk.changes =>
          /\ disk'.changes.shape = disk.changes.shape
          /\ Len(disk'.changes.items) = Len(disk.changes.items)
          /\ \E s \in editSessions :
                \A i \in 1..Len(disk.changes.items) :
                   \/ disk'.changes.items[i] = disk.changes.items[i]
                   \/ /\ disk.changes.items[i].filePath = JStr(s.relativePath)
                      /\ disk'.changes.items[i].filePath = disk.changes.items[i].filePath]_vars

\* ---------------------------------------------------------------------------
\* deleteFromContext (commands.ts)
\* ---------------------------------------------------------------------------

\* hashes.json with the keys of its object; valid is FALSE when it does not
\* parse
HashesOf(keys) == [exists |-> TRUE, valid |-> TRUE, keys |-> keys]
MalformedHashes == [exists |-> TRUE, valid |-> FALSE, keys |-> {}]

\* fileEntry.filePath || fileEntry.file_path || '' (the entries of the
\* documents here have no file_path key)
EntryPath(fileEntry) ==
    LET v == fileEntry.filePath IN
    IF v.t = "str" /\ Len(v.s) > 0 THEN v
    ELSE IF v.t = "num" /\ v.n # 0 THEN v
    ELSE JStr(<<>>)

\* whether the callback of filter throws on the element: a null element has
\* no properties, and a number has no replace method
FilterCallbackThrows(fileEntry, isFile) ==
    \/ ~fileEntry.obj
    \/ ~isFile /\ EntryPath(fileEntry).t # "str"

\* a file item removes with a comparison after normalizing the separators
RemovesEntry_Normalized(fileEntry, relativePath, isFile) ==
    LET entryPath == EntryPath(fileEntry)
        normalizedEntry == normalizePath(entryPath.s)
        normalizedFolder == normalizePath(relativePath)
    IN IF isFile THEN entryPath.t = "str" /\ normalizedEntry = normalizedFolder
       ELSE \/ StartsWith(normalizedEntry, normalizedFolder \o <<SLASH>>)
            \/ normalizedEntry = normalizedFolder

\* the negation of the callback of filter: the entry is removed
RemovesEntry(fileEntry, relativePath, isFile) ==
    LET entryPath == EntryPath(fileEntry)
        normalizedEntry == normalizePath(entryPath.s)
        normalizedFolder == normalizePath(relativePath)
    IN IF isFile THEN entryPath = JStr(relativePath)
       ELSE \/ StartsWith(normalizedEntry, normalizedFolder \o <<SLASH>>)
            \/ normalizedEntry = normalizedFolder

\* the keys deleted from hashes.json
RemovedKeys(keys, relativePath, isFile) ==
    IF isFile THEN keys \cap {relativePath}
    ELSE {k \in keys :
            \/ StartsWith(normalizePath(k), normalizePath(relativePath) \o <<SLASH>>)
            \/ normalizePath(k) = normalizePath(relativePath)}

\* the items of the context view that carry a path
ContextItems ==
    {it \in UNION {ItemsOf(a.result) : a \in answers[CONTEXT_JSON]} : it.hasPath}

\* deleteFromContext(item); confirmed is the answer 'Remove' to the modal
\* question
DeleteFromContext(item, confirmed) ==
    LET relativePath == item.fullPath
        contextData == disk.context
        parsed == contextData.shape \in {"array", "object", "other"}
        isArray == contextData.shape = "array"
        threw == \E i \in 1..Len(contextData.items) :
                    FilterCallbackThrows(contextData.items[i], item.isFile)
        filteredData == SelectSeq(contextData.items,
                           LAMBDA e : ~RemovesEntry(e, relativePath, item.isFile))
        removedCount == Len(contextData.items) - Len(filteredData)
        writes == confirmed /\ parsed /\ isArray /\ ~threw /\ removedCount # 0
        writesHashes == writes /\ hashes.exists /\ hashes.valid
    IN /\ NoTurnInProgress
       /\ item \in ContextItems
       /\ disk' = IF writes THEN [disk EXCEPT !.context = Doc("array", filteredData)]
                  ELSE disk
       /\ hashes' = IF writesHashes
                    THEN HashesOf(hashes.keys \ RemovedKeys(hashes.keys, relativePath, item.isFile))
                    ELSE hashes
       /\ pendingEvents' = IF writes /\ pendingEvents < MaxEvents
                           THEN pendingEvents + 1 ELSE pendingEvents
       /\ lastRun' = [cmd |-> "delete", relativePath |-> relativePath,
                      isFile |-> item.isFile, confirmed |-> confirmed,
                      before |-> contextData, after |-> disk'.context,
                      hashesBefore |-> hashes, hashesAfter |-> hashes',
                      threw |-> confirmed /\ isArray /\ threw,
                      wroteContext |-> writes, wroteHashes |-> writesHashes]
       /\ IF writes THEN Refresh ELSE NoRefresh
       /\ UNCHANGED <<checkForUpdates, configuredPath, fileWatcher, liveWatchers>>
       /\ UNCHANGED <<sep, ws, visible, useCli, cliFound, tempFiles,
                      workspaceState, editSessions, openDocs>>

\* the entries of the context.json documents of the context specification
ContextEntries == {ItemA, ItemAB, ItemAbackB, ItemB, JNull, ItemNum}

ContextDocs ==
    {AbsentDoc, MalformedDoc, OtherDoc, Doc("object", <<ItemA, ItemAB>>)}
    \cup {Doc("array", items) : items \in SeqsUpTo(ContextEntries, MaxEntries)}

\* what an edit of context.json made outside the extension leaves
EditedContextDocs == {Doc("array", <<JNull, ItemA>>)}

HashesPool ==
    {NoHashes, MalformedHashes, HashesOf({PathA, PathAB, PathAbackB})}

\* The context specification: the context view is shown and entries are
\* removed from it.
InitContext ==
    /\ sep \in {SLASH, BSLASH}
    /\ visible = {CONTEXT_JSON}
    /\ \E c \in ContextDocs :
          disk = [context |-> c, changes |-> AbsentDoc, reverts |-> NoReverts]
    /\ ws = NoWs
    /\ InitProviders
    /\ useCli = TRUE
    /\ cliFound = TRUE
    /\ InitCommands
    /\ checkForUpdates = TRUE
    /\ configuredPath = AicodecPathOf(sep)
    /\ fileWatcher = WatcherOf(AicodecPathOf(sep))
    /\ liveWatchers = SetToBag({AicodecPathOf(sep)})
    /\ hashes \in HashesPool

NextContext ==
    \/ \E element \in Expandable(CONTEXT_JSON) : GetChildrenStart(CONTEXT_JSON, element, 1)
    \/ ReadFile(1)
    \/ Resume(1)
    \/ WatcherEvent
    \/ \E doc \in EditedContextDocs : DiskChange(Target(<<>>, CONTEXT_JSON), doc)
    \/ \E item \in ContextItems, confirmed \in BOOLEAN : DeleteFromContext(item, confirmed)

SpecContext == InitContext /\ [][NextContext]_vars

\* the path of an entry as the claim speaks of it: the string under filePath
PathOfEntry(fileEntry) ==
    IF fileEntry.obj /\ IsString(fileEntry.filePath) THEN fileEntry.filePath.s ELSE <<>>

\* the entries the item stands for: equal path for a file item, the folder
\* or something below it for a folder item
Matching(fileEntry, relativePath, isFile) ==
    IF isFile THEN PathOfEntry(fileEntry) = relativePath
    ELSE \/ normalizePath(PathOfEntry(fileEntry)) = normalizePath(relativePath)
         \/ StartsWith(normalizePath(PathOfEntry(fileEntry)),
                       normalizePath(relativePath) \o <<SLASH>>)

NEWLINE == "\n"
\* the character U+0060 (grave accent), written by its name
BACKTICK == "GRAVE"
FENCE == <<BACKTICK, BACKTICK, BACKTICK>>
JSON_TAG == <<"j", "s", "o", "n">>

\* the characters \s matches and trim() removes, of those the texts use
WhiteSpace == {SPACE, NEWLINE}

RECURSIVE TrimWsLeft(_)
TrimWsLeft(s) == IF Len(s) > 0 /\ Head(s) \in WhiteSpace THEN TrimWsLeft(Tail(s)) ELSE s

RECURSIVE TrimWsRight(_)
TrimWsRight(s) ==
    IF Len(s) > 0 /\ s[Len(s)] \in WhiteSpace THEN TrimWsRight(SubSeq(s, 1, Len(s) - 1)) ELSE s

\* String.prototype.trim
TrimWs(s) == TrimWsRight(TrimWsLeft(s))

\* getAicodecPath(): undefined (set is FALSE) when the setting is empty or
\* blank, the setting as it is otherwise
getAicodecPath(configured) ==
    [set |-> Len(configured) > 0 /\ Len(TrimWs(configured)) > 0, path |-> configured]

\* the JSON texts of the clipboard pool and the documents they denote
JsonValues ==
    (<<"[", "]">> :> Doc("array", <<>>)) @@
    (<<"5">> :> OtherDoc)

\* JSON.parse(text): white space around the value is skipped; threw when the
\* text is not JSON
JsonParse(text) ==
    LET t == TrimWs(text) IN
    IF t \in DOMAIN JsonValues THEN [threw |-> FALSE, value |-> JsonValues[t]]
    ELSE [threw |-> TRUE, value |-> AbsentDoc]

\* the positions at which a fence starts
FencesOf(text) == {i \in 1..(Len(text) - 2) : SubSeq(text, i, i + 2) = FENCE}

\* clipboardContent.match(/FENCE(?:json)?\s*\n?([\s\S]*?)\n?FENCE/): the
\* leftmost match starts at the first fence that has another fence after
\* it, and the lazy group ends at the first such fence; matched is FALSE for
\* null, group is jsonMatch[1] up to the white space at its ends, which
\* JSON.parse skips
FencedMatch(text) ==
    LET opens == {i \in FencesOf(text) : \E j \in FencesOf(text) : j >= i + 3} IN
    IF opens = {} THEN [matched |-> FALSE, group |-> <<>>]
    ELSE LET i == CHOOSE k \in opens : \A m \in opens : k <= m
             closes == {j \in FencesOf(text) : j >= i + 3}
             j == CHOOSE k \in closes : \A m \in closes : k <= m
             inner == SubSeq(text, i + 3, j - 1)
             body == IF StartsWith(inner, JSON_TAG) THEN Substring(inner, Len(JSON_TAG))
                     ELSE inner
         IN [matched |-> TRUE, group |-> TrimWs(body)]

\* the value the clipboard route writes: JSON.parse of the text, or else of
\* the group of the match
ClipboardJson(clipboardContent) ==
    LET direct == JsonParse(clipboardContent)
        jsonMatch == FencedMatch(clipboardContent)
    IN IF ~direct.threw THEN direct
       ELSE IF jsonMatch.matched THEN JsonParse(jsonMatch.group)
       ELSE direct

OVERWRITE == "Overwrite"
CANCEL == "Cancel"
PASTE == "Paste from Clipboard"
OPEN_EDITOR == "Open Editor"

\* any answer but 'Cancel' counts as consent
ConfirmsOverwrite_NotCancel(overwrite) == overwrite # CANCEL

\* overwrite !== 'Overwrite' returns
ConfirmsOverwrite(overwrite) == overwrite = OVERWRITE

\* fs.existsSync(changesPath) and stat.size > 0
HasContent(doc) == doc.shape \notin {"absent", "empty"}

\* runPrepare(); overwrite is the answer to the modal question, inputChoice
\* the pick of the quick pick, clipboardContent the text of the clipboard
RunPrepare(workspace, overwrite, inputChoice, clipboardContent) ==
    LET aicodecPath == getAicodecPath(configuredPath)
        before == disk.changes
        asked == workspace /\ aicodecPath.set /\ HasContent(before)
        picks == workspace /\ aicodecPath.set /\ (asked => ConfirmsOverwrite(overwrite))
        pastes == picks /\ inputChoice = PASTE
        read == pastes /\ Len(clipboardContent) > 0 /\ Len(TrimWs(clipboardContent)) > 0
        json == ClipboardJson(clipboardContent)
        writesJson == read /\ ~json.threw
        writesEmpty == picks /\ inputChoice = OPEN_EDITOR
        writes == writesJson \/ writesEmpty
    IN /\ NoTurnInProgress
       /\ asked \/ overwrite = Dismissed
       /\ picks \/ inputChoice = Dismissed
       /\ pastes \/ clipboardContent = <<>>
       /\ disk' = IF writesJson THEN [disk EXCEPT !.changes = json.value]
                  ELSE IF writesEmpty THEN [disk EXCEPT !.changes = EmptyDoc]
                  ELSE disk
       /\ pendingEvents' = IF writes /\ pendingEvents < MaxEvents
                           THEN pendingEvents + 1 ELSE pendingEvents
       /\ lastRun' = [cmd |-> "prepare", workspace |-> workspace,
                      before |-> before, after |-> disk'.changes,
                      asked |-> asked, overwrite |-> overwrite,
                      inputChoice |-> inputChoice, read |-> read,
                      clipboardContent |-> clipboardContent, wrote |-> writes]
       /\ IF writesJson THEN Refresh
          ELSE /\ dirty' = [p \in Providers |->
                              dirty[p] \/ (writes /\ p = CHANGES_JSON /\ reads[p] > 0)]
               /\ UNCHANGED <<relativeFilePaths, fileData, answers, reads, cacheOld, calls>>
       /\ UNCHANGED hostVars
       /\ UNCHANGED <<sep, ws, visible, useCli, cliFound, tempFiles,
                      workspaceState, editSessions, openDocs>>

\* the texts of the clipboard
ClipboardTexts ==
    { <<>>,
      <<SPACE, NEWLINE>>,
      <<"[", "]">>,
      <<SPACE, "5", NEWLINE>>,
      <<"x">>,
      FENCE \o JSON_TAG \o <<NEWLINE, "[", "]", NEWLINE>> \o FENCE,
      <<"x", NEWLINE>> \o FENCE \o <<NEWLINE, "5", NEWLINE>> \o FENCE \o <<"x">>,
      FENCE \o <<"x">> \o FENCE \o <<NEWLINE>> \o FENCE \o <<"[", "]">> \o FENCE,
      FENCE \o <<"[", "]">> }

\* the values of the aicodec.path setting
PathSettings(sepc) == {AicodecPathOf(sepc), <<>>, <<SPACE>>}

\* The prepare specification: runPrepare runs on a changes.json that is
\* absent, empty or has content, and the watcher notifications arrive.
InitPrepare ==
    /\ sep \in {SLASH, BSLASH}
    /\ visible = {CHANGES_JSON}
    /\ \E c \in {AbsentDoc, EmptyDoc, MalformedDoc, Doc("array", <<ItemA>>)} :
          disk = [context |-> AbsentDoc, changes |-> c, reverts |-> NoReverts]
    /\ ws = NoWs
    /\ InitProviders
    /\ useCli = TRUE
    /\ cliFound = TRUE
    /\ InitCommands
    /\ checkForUpdates = TRUE
    /\ configuredPath \in PathSettings(sep)
    /\ fileWatcher = IF getAicodecPath(configuredPath).set
                     THEN WatcherOf(configuredPath) ELSE NoWatcher
    /\ liveWatchers = IF getAicodecPath(configuredPath).set
                      THEN SetToBag({configuredPath}) ELSE EmptyBag
    /\ hashes = NoHashes

NextPrepare ==
    \/ \E workspace \in BOOLEAN, overwrite \in {OVERWRITE, CANCEL, Dismissed},
          inputChoice \in {PASTE, OPEN_EDITOR, Dismissed},
          clipboardContent \in ClipboardTexts :
          RunPrepare(workspace, overwrite, inputChoice, clipboardContent)
    \/ WatcherEvent

SpecPrepare == InitPrepare /\ [][NextPrepare]_vars

\* the text of the first fenced block of a text, without its json tag
FirstFencedBlock(text) ==
    LET fences == FencesOf(text)
        i == CHOOSE k \in fences : \A m \in fences : k <= m
        after == {k \in fences : k >= i + 3}
        j == CHOOSE k \in after : \A m \in after : k <= m
        inner == SubSeq(text, i + 3, j - 1)
    IN IF fences = {} \/ after = {} THEN [found |-> FALSE, text |-> <<>>]
       ELSE [found |-> TRUE,
             text |-> IF StartsWith(inner, JSON_TAG) THEN Substring(inner, Len(JSON_TAG))
                      ELSE inner]

\* the clipboard text is JSON, or its first fenced block is
ParsesAsJson(text) ==
    \/ ~JsonParse(text).threw
    \/ FirstFencedBlock(text).found /\ ~JsonParse(FirstFencedBlock(text).text).threw

\* C28: runPrepare writes changes.json only if the file was absent or empty
\* or the user chose "Overwrite", and on the clipboard route only if the
\* clipboard text is JSON, directly or in its first fenced block; when the
\* user cancels, the clipboard is empty or the parse fails, changes.json is
\* left as it was.
C28_PrepareWritesOnlyOnConsent ==
    lastRun.cmd = "prepare" =>
        LET cancelled == \/ lastRun.asked /\ lastRun.overwrite # OVERWRITE
                         \/ lastRun.inputChoice \notin {PASTE, OPEN_EDITOR}
            emptyClipboard == /\ lastRun.inputChoice = PASTE
                              /\ TrimWs(lastRun.clipboardContent) = <<>>
            parseFails == /\ lastRun.inputChoice = PASTE
                          /\ ~ParsesAsJson(lastRun.clipboardContent)
        IN /\ lastRun.wrote =>
                 \/ lastRun.before.shape \in {"absent", "empty"}
                 \/ lastRun.overwrite = OVERWRITE
           /\ (lastRun.wrote /\ lastRun.inputChoice = PASTE) =>
                 ParsesAsJson(lastRun.clipboardContent)
           /\ (cancelled \/ emptyClipboard \/ parseFails) =>
                 (~lastRun.wrote /\ lastRun.after = lastRun.before)

\* a run that overwrote a changes.json with content from a fenced block
C28_Witness ==
    /\ lastRun.cmd = "prepare"
    /\ lastRun.wrote
    /\ lastRun.asked
    /\ lastRun.inputChoice = PASTE
    /\ JsonParse(lastRun.clipboardContent).threw
    /\ lastRun.after = Doc("array", <<>>)

\* ---------------------------------------------------------------------------
\* startNewSession (commands.ts)
\* ---------------------------------------------------------------------------

YES_START == "Yes, Start New Session"

\* every file of the directory
RevertFilesIn_All(dir) == DOMAIN dir.files

\* fs.readdirSync(revertsDir).filter(f => f.startsWith('revert-') &&
\* f.endsWith('.json'))
RevertFilesIn(dir) ==
    {f \in DOMAIN dir.files : StartsWith(f, REVERT_PREFIX) /\ EndsWith(f, JSON_SUFFIX)}

\* the directory after unlinkSync of the files, and rmdirSync when
\* readdirSync finds nothing left
Unlinked(dir, revertFiles) ==
    LET left == DOMAIN dir.files \ revertFiles IN
    [exists |-> left # {}, files |-> [n \in left |-> dir.files[n]]]

\* startNewSession(); confirm is the answer to the modal question
StartNewSession(confirm) ==
    LET aicodecPath == getAicodecPath(configuredPath)
        revertFiles == IF disk.reverts.exists THEN RevertFilesIn(disk.reverts) ELSE {}
        asked == aicodecPath.set /\ disk.reverts.exists /\ revertFiles # {}
        clears == asked /\ confirm = YES_START
    IN /\ NoTurnInProgress
       /\ asked \/ confirm = Dismissed
       /\ disk' = IF clears THEN [disk EXCEPT !.reverts = Unlinked(@, revertFiles)] ELSE disk
       /\ lastRun' = [cmd |-> "newSession", asked |-> asked, confirm |-> confirm,
                      before |-> disk.reverts, after |-> disk'.reverts]
       /\ IF clears THEN Refresh ELSE NoRefresh
       /\ UNCHANGED hostVars
       /\ UNCHANGED <<sep, ws, visible, pendingEvents, useCli, cliFound, tempFiles,
                      workspaceState, editSessions, openDocs>>

\* other files of the reverts directory
NotesFile == <<"n", "o", "t", "e", "s">>
BackupFile == Session1 \o <<".", "b", "a", "k">>

\* a reverts directory with the given files, those with an absent document
\* left out
DirOf(docs) ==
    [exists |-> TRUE,
     files |-> [n \in {m \in DOMAIN docs : docs[m] # AbsentDoc} |-> docs[n]]]

RevertsDirs ==
    {NoReverts} \cup
    {DirOf((Session1 :> d1) @@ (Session2 :> d2) @@ (NotesFile :> d3) @@ (BackupFile :> d4)) :
        d1 \in {AbsentDoc, Doc("object", <<ItemA>>)},
        d2 \in {AbsentDoc, Doc("object", <<ItemAB>>), MalformedDoc},
        d3 \in {AbsentDoc, MalformedDoc},
        d4 \in {AbsentDoc, Doc("object", <<ItemB>>)}}

\* The session specification: the reverts view is shown and new sessions
\* are started.
InitSession ==
    /\ sep \in {SLASH, BSLASH}
    /\ visible = {REVERT_JSON}
    /\ \E r \in RevertsDirs :
          disk = [context |-> AbsentDoc, changes |-> AbsentDoc, reverts |-> r]
    /\ ws = NoWs
    /\ InitProviders
    /\ useCli = TRUE
    /\ cliFound = TRUE
    /\ InitCommands
    /\ checkForUpdates = TRUE
    /\ configuredPath \in PathSettings(sep)
    /\ fileWatcher = IF getAicodecPath(configuredPath).set
                     THEN WatcherOf(configuredPath) ELSE NoWatcher
    /\ liveWatchers = IF getAicodecPath(configuredPath).set
                      THEN SetToBag({configuredPath}) ELSE EmptyBag
    /\ hashes = NoHashes

NextSession ==
    \/ \E element \in Expandable(REVERT_JSON) : GetChildrenStart(REVERT_JSON, element, 1)
    \/ Resume(1)
    \/ \E confirm \in {YES_START, CANCEL, Dismissed} : StartNewSession(confirm)

SpecSession == InitSession /\ [][NextSession]_vars

\* a file name of the form revert-*.json
IsRevertName(f) ==
    /\ Len(f) >= Len(REVERT_PREFIX) + Len(JSON_SUFFIX)
    /\ SubSeq(f, 1, Len(REVERT_PREFIX)) = REVERT_PREFIX
    /\ SubSeq(f, Len(f) - Len(JSON_SUFFIX) + 1, Len(f)) = JSON_SUFFIX

\* C30: startNewSession deletes files only after the answer "Yes, Start New
\* Session", only files of the reverts directory named revert-*.json,
\* removes the directory only if it is empty afterwards, changes nothing
\* when the user cancels or no such file exists, and after a confirmed run
\* the reverts view loads no entries.
C30_NewSessionClearsOnlyReverts ==
    lastRun.cmd = "newSession" =>
        LET before == lastRun.before
            after == lastRun.after
            deleted == DOMAIN before.files \ DOMAIN after.files
            named == {f \in DOMAIN before.files : IsRevertName(f)}
        IN /\ DOMAIN after.files \subseteq DOMAIN before.files
           /\ \A f \in DOMAIN after.files : after.files[f] = before.files[f]
           /\ deleted # {} => lastRun.confirm = YES_START
           /\ deleted \subseteq named
           /\ (before.exists /\ ~after.exists) =>
                 (lastRun.confirm = YES_START /\ DOMAIN after.files = {})
           /\ (lastRun.confirm # YES_START \/ named = {}) => after = before
           /\ lastRun.confirm = YES_START =>
                 /\ deleted = named
                 /\ disk.reverts = after
                 /\ fileData[REVERT_JSON].loaded => fileData[REVERT_JSON].list = <<>>
                 /\ \A a \in answers[REVERT_JSON] :
                       \A it \in ItemsOf(a.result) : ~it.hasPath /\ ~it.collapsible

\* a confirmed run left another file in the directory, and the view was
\* loaded again
C30_Witness ==
    /\ lastRun.cmd = "newSession"
    /\ lastRun.confirm = YES_START
    /\ Cardinality(DOMAIN lastRun.before.files \ DOMAIN lastRun.after.files) = 2
    /\ lastRun.after.exists
    /\ answers[REVERT_JSON] # {}

\* ---------------------------------------------------------------------------
\* The watcher of the .aicodec directory (extension.ts)
\* ---------------------------------------------------------------------------

DriveLetters == {"C"}

\* path.isAbsolute of the host: a leading "/" on POSIX; on win32 a leading
\* separator, or a drive letter, ":" and a separator
isAbsolute(p, sepc) ==
    IF sepc = BSLASH
    THEN \/ Len(p) >= 1 /\ p[1] \in {SLASH, BSLASH}
         \/ Len(p) >= 3 /\ p[1] \in DriveLetters /\ p[2] = ":" /\ p[3] \in {SLASH, BSLASH}
    ELSE Len(p) >= 1 /\ p[1] = SLASH

\* the old watcher stays live
DisposeOld_Keep(live, watcher) == live

\* if (fileWatcher) { fileWatcher.dispose(); fileWatcher = undefined; }
DisposeOld(live, watcher) ==
    IF watcher.set /\ BagIn(watcher.path, live) THEN live (-) SetToBag({watcher.path})
    ELSE live

\* setupFileWatcher(): the closure variable and the live watchers after it
setupFileWatcher(live, watcher, configured, sepc) ==
    LET disposed == DisposeOld(live, watcher)
        aicodecPath == getAicodecPath(configured)
    IN IF aicodecPath.set /\ isAbsolute(aicodecPath.path, sepc)
       THEN [fileWatcher |-> WatcherOf(aicodecPath.path),
             live |-> disposed (+) SetToBag({aicodecPath.path})]
       ELSE [fileWatcher |-> NoWatcher, live |-> disposed]

\* onDidChangeConfiguration with affectsConfiguration('aicodec.path'): the
\* setting has the value newPath; setupFileWatcher() and refresh() run
ConfigChange(newPath) ==
    LET setup == setupFileWatcher(liveWatchers, fileWatcher, newPath, sep) IN
    /\ NoTurnInProgress
    /\ configuredPath' = newPath
    /\ fileWatcher' = setup.fileWatcher
    /\ liveWatchers' = setup.live
    /\ lastRun' = [cmd |-> "configChange", path |-> newPath]
    /\ Refresh
    /\ UNCHANGED <<checkForUpdates, hashes>>
    /\ UNCHANGED <<sep, disk, ws, visible, pendingEvents, useCli, cliFound, tempFiles,
                   workspaceState, editSessions, openDocs>>

\* the extension host starts again: the subscriptions of the old context
\* are disposed, and activate() runs with new providers, a new closure
\* variable and setupFileWatcher(); registerCommands clears the temp
\* directory
Activate ==
    LET setup == setupFileWatcher(EmptyBag, NoWatcher, configuredPath, sep) IN
    /\ fileWatcher' = setup.fileWatcher
    /\ liveWatchers' = setup.live
    /\ lastRun' = [cmd |-> "activate", path |-> configuredPath]
    /\ editSessions' = {}
    /\ tempFiles' = NoTempFiles
    /\ relativeFilePaths' = [p \in Providers |-> Unloaded]
    /\ fileData' = [p \in Providers |-> Unloaded]
    /\ calls' = [i \in CallIds |-> IdleCall]
    /\ pendingEvents' = 0
    /\ answers' = [p \in Providers |-> {}]
    /\ reads' = [p \in Providers |-> 0]
    /\ cacheOld' = [p \in Providers |-> FALSE]
    /\ dirty' = [p \in Providers |-> FALSE]
    /\ UNCHANGED <<checkForUpdates, configuredPath, hashes>>
    /\ UNCHANGED <<sep, disk, ws, visible, useCli, cliFound, workspaceState, openDocs>>

\* a .json file directly inside the directory dir is created, changed or
\* deleted: onFileChange of every live watcher of that directory runs
\* refresh()
DirectoryEvent(dir) ==
    LET refreshes == CopiesIn(dir, liveWatchers) IN
    /\ NoTurnInProgress
    /\ lastRun' = [cmd |-> "dirEvent", path |-> dir, refreshes |-> refreshes,
                   configured |-> configuredPath]
    /\ IF refreshes > 0 THEN Refresh ELSE NoRefresh
    /\ UNCHANGED hostVars
    /\ UNCHANGED <<sep, disk, ws, visible, pendingEvents, useCli, cliFound, tempFiles,
                   workspaceState, editSessions, openDocs>>

OtherPath == <<"/", "v">>
RelativeSetting == <<"w">>
PaddedSetting == <<SPACE, "/", "w">>

\* the values the aicodec.path setting takes
WatchedSettings ==
    {AicodecPathOf(SLASH), AicodecPathOf(BSLASH), OtherPath, RelativeSetting,
     PaddedSetting, <<>>, <<SPACE>>}

\* The watcher specification: the extension is activated, the setting
\* changes, and files of the directories change.
InitWatcher ==
    /\ sep \in {SLASH, BSLASH}
    /\ visible = {CONTEXT_JSON}
    /\ disk = [context |-> FirstLoadDoc, changes |-> AbsentDoc, reverts |-> NoReverts]
    /\ ws = NoWs
    /\ InitProviders
    /\ useCli = TRUE
    /\ cliFound = TRUE
    /\ InitCommands
    /\ checkForUpdates = TRUE
    /\ configuredPath \in WatchedSettings
    /\ fileWatcher = setupFileWatcher(EmptyBag, NoWatcher, configuredPath, sep).fileWatcher
    /\ liveWatchers = setupFileWatcher(EmptyBag, NoWatcher, configuredPath, sep).live
    /\ hashes = NoHashes

NextWatcher ==
    \/ \E newPath \in WatchedSettings : ConfigChange(newPath)
    \/ Activate
    \/ \E dir \in WatchedSettings \ {<<>>, <<SPACE>>} : DirectoryEvent(dir)
    \/ GetChildrenStart(CONTEXT_JSON, ROOT, 1)
    \/ ReadFile(1)
    \/ Resume(1)

SpecWatcher == InitWatcher /\ [][NextWatcher]_vars

\* C29: at most one watcher of the .aicodec directory is live; one is live
\* exactly when the configured path is set and absolute, and then it watches
\* the configured path; a refresh that a directory event triggers comes from
\* the watcher of the path configured at that time.
C29_OneWatcherOnConfiguredPath ==
    LET shouldWatch == /\ Len(TrimWs(configuredPath)) > 0
                       /\ isAbsolute(configuredPath, sep)
    IN /\ BagCardinality(liveWatchers) <= 1
       /\ (BagCardinality(liveWatchers) = 1) <=> shouldWatch
       /\ shouldWatch => BagIn(configuredPath, liveWatchers)
       /\ (lastRun.cmd = "dirEvent" /\ lastRun.refreshes > 0) =>
             (lastRun.refreshes = 1 /\ lastRun.path = lastRun.configured)

\* the path was changed from one absolute path to another, and an event of
\* the new directory refreshed the views
C29_Witness ==
    /\ lastRun.cmd = "dirEvent"
    /\ lastRun.refreshes = 1
    /\ lastRun.path = OtherPath
    /\ configuredPath = OtherPath

====
